---------------------------- MODULE Spec2Model ----------------------------
(***************************************************************************)
(* Geodrop simulation core: the tile world (TilemapSystem), the player's  *)
(* tile collision step (PlayerSystem), the mining state machine           *)
(* (MiningSystem) and the frame handler that drives them (MainScene).     *)
(*                                                                         *)
(* Numbers.  Lengths are kept in half pixels (Px(n) is n pixels), so that  *)
(* the 0.5 px thresholds of the source are the integer 1; speeds are kept  *)
(* in half pixels per second for the same reason.  Times are integer       *)
(* milliseconds.  The mining progress of a session is a double: the source *)
(* adds (miningSpeed / hardness) * (delta / 1000) per tick, and each       *)
(* division, product and sum is rounded as JavaScript rounds it.           *)
(***************************************************************************)
EXTENDS Integers, Sequences, FiniteSets, TLC

Px(n) == 2 * n
HalfPx == Px(1) \div 2

\* the null of an optional record (a resolution, a mining result)
NULL == [null |-> TRUE]

\* the one element of a singleton: The({f(v) : v \in {e}}) is f(e)
The(S) == CHOOSE e \in S : TRUE

Min(a, b) == IF a < b THEN a ELSE b
Max(a, b) == IF a > b THEN a ELSE b

(***************************************************************************)
(* config/tiles.ts                                                         *)
(***************************************************************************)
EMPTY == 0
DIRT == 1
STONE == 2
ORE == 3
BEDROCK == 4

TileType == {EMPTY, DIRT, STONE, ORE, BEDROCK}

TileRegistry ==
  [t \in TileType |->
     CASE t = EMPTY   -> [hardness |-> 0,   solid |-> FALSE, connectedTexture |-> FALSE]
       [] t = DIRT    -> [hardness |-> 1,   solid |-> TRUE,  connectedTexture |-> TRUE]
       [] t = STONE   -> [hardness |-> 3,   solid |-> TRUE,  connectedTexture |-> TRUE]
       [] t = ORE     -> [hardness |-> 5,   solid |-> TRUE,  connectedTexture |-> FALSE]
       [] t = BEDROCK -> [hardness |-> 999, solid |-> TRUE,  connectedTexture |-> FALSE]]

(***************************************************************************)
(* config/world.ts, config/player.ts, config/mining.ts                     *)
(***************************************************************************)
tileWidth == Px(32)
tileHeight == Px(32)

bodyWidth == Px(16)
bodyHeight == Px(20)
bodyOffsetX == Px(4)
bodyOffsetY == Px(4)
spriteWidth == Px(24)
spriteHeight == Px(24)
moveSpeed == Px(200)
jumpVelocity == Px(-400)

landingCooldown == 10
\* miningSpeed is 2.0 hardness points per second: MiningSpeedNum / MiningSpeedDen
MiningSpeedNum == 2
MiningSpeedDen == 1

(***************************************************************************)
(* The worlds the model runs on.  BaseTiles is a layout of height rows of  *)
(* width cells holding every tile type: a row of air, a ground row and a   *)
(* deep row.  An initial world keeps or empties each cell of the ground    *)
(* row (a cave pocket).                                                    *)
(***************************************************************************)
BaseTiles == << <<EMPTY, EMPTY>>,
                <<DIRT,  STONE>>,
                <<ORE,   BEDROCK>> >>

WorldHeight == Len(BaseTiles)
WorldWidth == Len(BaseTiles[1])

Rows == 0 .. (WorldHeight - 1)
Cols == 0 .. (WorldWidth - 1)

GroundRow == 1

InitialTiles ==
  { g \in [Rows -> [Cols -> TileType]] :
      \A y \in Rows : \A x \in Cols :
         \/ g[y][x] = BaseTiles[y + 1][x + 1]
         \/ y = GroundRow /\ g[y][x] = EMPTY }

VARIABLES
  worldData,        \* TilemapSystem.worldData: tiles[y][x], width, height
  tileSprites,      \* TilemapSystem.tileSprites: the keys <<x, y>> holding a sprite
  tileVariations    \* TilemapSystem.tileVariations: the keys holding a variation

tilemapVars == <<worldData, tileSprites, tileVariations>>

(***************************************************************************)
(* TilemapSystem                                                           *)
(***************************************************************************)
\* getTileAt(x, y): the tile type, or NoTile (the null it returns) outside the grid
NoTile == -1

\* the array read tiles[y][x]: reading a column of a missing row throws a
\* TypeError, a missing column of a row reads as undefined
TypeError == -2
Undefined == -3

TileRead(wd, x, y) ==
  IF y \notin DOMAIN wd.tiles THEN TypeError
  ELSE IF x \notin DOMAIN wd.tiles[y] THEN Undefined
  ELSE wd.tiles[y][x]

\* a variant that reads the nearest cell of the grid instead of returning null
GetTileAtClamped(wd, x, y) ==
  wd.tiles[Max(0, Min(y, wd.height - 1))][Max(0, Min(x, wd.width - 1))]

GetTileAt(wd, x, y) ==
  IF x < 0 \/ y < 0 \/ x >= wd.width \/ y >= wd.height
    THEN NoTile
    ELSE TileRead(wd, x, y)

\* isSolid(x, y)
IsSolid(wd, x, y) ==
  LET tileType == GetTileAt(wd, x, y)
  IN  IF tileType = NoTile THEN FALSE ELSE TileRegistry[tileType].solid

\* populateTilemap: one sprite (and one variation) per non-EMPTY cell
PopulateTilemap(tiles) ==
  { <<x, y>> \in Cols \X Rows : tiles[y][x] # EMPTY }

\* updateNeighborConnections: the 8 neighbours of the destroyed cell
Neighbors(centerX, centerY) ==
  { <<centerX - 1, centerY - 1>>, <<centerX, centerY - 1>>, <<centerX + 1, centerY - 1>>,
    <<centerX - 1, centerY>>,                               <<centerX + 1, centerY>>,
    <<centerX - 1, centerY + 1>>, <<centerX, centerY + 1>>, <<centerX + 1, centerY + 1>> }

\* the neighbours whose sprite is destroyed and created again: in the grid,
\* not EMPTY, and of a type drawn with connected textures
Reconnected(wd, centerX, centerY) ==
  { k \in Neighbors(centerX, centerY) :
      LET tileType == GetTileAt(wd, k[1], k[2])
      IN  /\ tileType # NoTile
          /\ tileType # EMPTY
          /\ TileRegistry[tileType].connectedTexture }

\* destroyTile(x, y): the return value (ok) and the tilemap after the call.
\* A tilemap value tm carries worldData, tileSprites, tileVariations and
\* calls, the destroyTile calls made on it so far with what each returned.
Called(tm, x, y, ok) ==
  [tm EXCEPT !.calls = Append(@, [x |-> x, y |-> y, ok |-> ok])]

\* a variant without the sprite lookup of lines 129-131
DestroyTileUnconditional(tm, x, y) ==
  IF x < 0 \/ y < 0 \/ x >= tm.worldData.width \/ y >= tm.worldData.height
    THEN [ok |-> FALSE, tm |-> Called(tm, x, y, FALSE)]
    ELSE LET wd == [tm.worldData EXCEPT !.tiles[y][x] = EMPTY]
             again == Reconnected(wd, x, y)
         IN  [ok |-> TRUE,
              tm |-> [worldData      |-> wd,
                      tileSprites    |-> (tm.tileSprites \ {<<x, y>>}) \cup again,
                      tileVariations |-> (tm.tileVariations \ {<<x, y>>}) \cup again,
                      calls          |-> Append(tm.calls, [x |-> x, y |-> y, ok |-> TRUE])]]

\* a variant that empties the whole row of the destroyed cell
DestroyTileRow(tm, x, y) ==
  IF x < 0 \/ y < 0 \/ x >= tm.worldData.width \/ y >= tm.worldData.height
    THEN [ok |-> FALSE, tm |-> Called(tm, x, y, FALSE)]
    ELSE IF <<x, y>> \notin tm.tileSprites
      THEN [ok |-> FALSE, tm |-> Called(tm, x, y, FALSE)]
      ELSE LET wd == [tm.worldData EXCEPT !.tiles[y] = [c \in DOMAIN @ |-> EMPTY]]
           IN  [ok |-> TRUE,
                tm |-> [worldData      |-> wd,
                        tileSprites    |-> { k \in tm.tileSprites : k[2] # y },
                        tileVariations |-> { k \in tm.tileVariations : k[2] # y },
                        calls          |-> Append(tm.calls, [x |-> x, y |-> y, ok |-> TRUE])]]

\* a variant that removes the sprite and leaves the grid as it is
DestroyTileSpriteOnly(tm, x, y) ==
  IF x < 0 \/ y < 0 \/ x >= tm.worldData.width \/ y >= tm.worldData.height
    THEN [ok |-> FALSE, tm |-> Called(tm, x, y, FALSE)]
    ELSE IF <<x, y>> \notin tm.tileSprites
      THEN [ok |-> FALSE, tm |-> Called(tm, x, y, FALSE)]
      ELSE [ok |-> TRUE,
            tm |-> [worldData      |-> tm.worldData,
                    tileSprites    |-> tm.tileSprites \ {<<x, y>>},
                    tileVariations |-> tm.tileVariations \ {<<x, y>>},
                    calls          |-> Append(tm.calls, [x |-> x, y |-> y, ok |-> TRUE])]]

\* a variant whose neighbour update destroys the sprites and creates none
DestroyTileDropsNeighbours(tm, x, y) ==
  IF x < 0 \/ y < 0 \/ x >= tm.worldData.width \/ y >= tm.worldData.height
    THEN [ok |-> FALSE, tm |-> Called(tm, x, y, FALSE)]
    ELSE IF <<x, y>> \notin tm.tileSprites
      THEN [ok |-> FALSE, tm |-> Called(tm, x, y, FALSE)]
      ELSE LET wd == [tm.worldData EXCEPT !.tiles[y][x] = EMPTY]
               again == Reconnected(wd, x, y)
           IN  [ok |-> TRUE,
                tm |-> [worldData      |-> wd,
                        tileSprites    |-> (tm.tileSprites \ {<<x, y>>}) \ again,
                        tileVariations |-> tm.tileVariations \ {<<x, y>>},
                        calls          |-> Append(tm.calls, [x |-> x, y |-> y, ok |-> TRUE])]]

DestroyTile(tm, x, y) ==
  IF x < 0 \/ y < 0 \/ x >= tm.worldData.width \/ y >= tm.worldData.height
    THEN [ok |-> FALSE, tm |-> Called(tm, x, y, FALSE)]
    ELSE IF <<x, y>> \notin tm.tileSprites
      THEN [ok |-> FALSE, tm |-> Called(tm, x, y, FALSE)]
      ELSE LET wd == [tm.worldData EXCEPT !.tiles[y][x] = EMPTY]
               again == Reconnected(wd, x, y)
           IN  [ok |-> TRUE,
                tm |-> [worldData      |-> wd,
                        tileSprites    |-> (tm.tileSprites \ {<<x, y>>}) \cup again,
                        tileVariations |-> (tm.tileVariations \ {<<x, y>>}) \cup again,
                        calls          |-> Append(tm.calls, [x |-> x, y |-> y, ok |-> TRUE])]]

\* the tilemap at the start of a handler: no call made yet
Tilemap == [worldData |-> worldData, tileSprites |-> tileSprites,
            tileVariations |-> tileVariations, calls |-> <<>>]


(***************************************************************************)
(* PlayerSystem                                                            *)
(***************************************************************************)
VARIABLES
  body,             \* the sprite's arcade body: x, y (top left) and vy
  sprite,           \* the player sprite: x, y
  pstate            \* PlayerSystem.state: isGrounded

playerVars == <<body, sprite, pstate>>

\* the sprite position the physics engine keeps for a body at (bx, by):
\* origin 0.5 of a spriteWidth x spriteHeight sprite, body offset by bodyOffset
SpriteOf(bx, by) ==
  [x |-> bx - bodyOffsetX + spriteWidth \div 2,
   y |-> by - bodyOffsetY + spriteHeight \div 2]

\* one tile of the scan of checkTileCollisions: the candidate resolution of
\* tile (tx, ty) for the body b, or NULL when the tile is not solid or the
\* overlap is within the 0.5 px threshold
\* a variant that measures the width the body and the tile share
TileOverlapXShared(b, tx) ==
  LET tileLeft == tx * tileWidth
      tileRight == tileLeft + tileWidth
  IN  Min(b.x + bodyWidth, tileRight) - Max(b.x, tileLeft)

\* overlapX and overlapY of lines 154-155
TileOverlapX(b, tx) ==
  LET tileLeft == tx * tileWidth
      tileRight == tileLeft + tileWidth
  IN  Min((b.x + bodyWidth) - tileLeft, tileRight - b.x)

\* a variant that measures the vertical overlap from 1 px below the body
TileOverlapYProbe(b, ty) ==
  LET tileTop == ty * tileHeight
      tileBottom == tileTop + tileHeight
  IN  Min((b.y + bodyHeight + Px(1)) - tileTop, tileBottom - b.y)

TileOverlapY(b, ty) ==
  LET tileTop == ty * tileHeight
      tileBottom == tileTop + tileHeight
  IN  Min((b.y + bodyHeight) - tileTop, tileBottom - b.y)

OverlapThreshold == HalfPx

Candidate(wd, b, tx, ty) ==
  LET tileLeft == tx * tileWidth
      tileTop == ty * tileHeight
      centerX == b.x + bodyWidth \div 2
      centerY == b.y + bodyHeight \div 2
      overlapX == TileOverlapX(b, tx)
      overlapY == TileOverlapY(b, ty)
  IN  IF ~IsSolid(wd, tx, ty) THEN NULL
      ELSE IF ~(overlapX > OverlapThreshold /\ overlapY > OverlapThreshold) THEN NULL
      ELSE [totalOverlap |-> overlapX * overlapY,
            tx |-> tx, ty |-> ty,
            res |-> IF overlapX < overlapY
                      THEN IF centerX < tileLeft + tileWidth \div 2
                             THEN [dx |-> -overlapX, dy |-> 0,
                                   stopVelocityX |-> TRUE, stopVelocityY |-> FALSE]
                             ELSE [dx |-> overlapX, dy |-> 0,
                                   stopVelocityX |-> TRUE, stopVelocityY |-> FALSE]
                      ELSE IF centerY < tileTop + tileHeight \div 2
                             THEN [dx |-> 0, dy |-> -overlapY,
                                   stopVelocityX |-> FALSE, stopVelocityY |-> TRUE]
                             ELSE [dx |-> 0, dy |-> overlapY,
                                   stopVelocityX |-> FALSE, stopVelocityY |-> TRUE]]

\* the tiles the body's bounding box spans
MinTileX(b) == b.x \div tileWidth
MaxTileX(b) == (b.x + bodyWidth) \div tileWidth
MinTileY(b) == b.y \div tileHeight
MaxTileY(b) == (b.y + bodyHeight) \div tileHeight

\* the scan "for ty ... for tx ..." from its i-th tile on, carrying maxOverlap
\* and bestResolution (best is NULL or the winning candidate)
RECURSIVE ScanTiles(_, _, _, _, _)
ScanTiles(wd, b, i, maxOverlap, best) ==
  LET ncols == MaxTileX(b) - MinTileX(b) + 1
      nrows == MaxTileY(b) - MinTileY(b) + 1
  IN  IF i >= ncols * nrows THEN best
      ELSE LET tx == MinTileX(b) + (i % ncols)
               ty == MinTileY(b) + (i \div ncols)
               c == Candidate(wd, b, tx, ty)
           IN  IF c # NULL /\ c.totalOverlap > maxOverlap
                 THEN ScanTiles(wd, b, i + 1, c.totalOverlap, c)
                 ELSE ScanTiles(wd, b, i + 1, maxOverlap, best)

\* a variant of the scan in which a later tile of equal area wins
RECURSIVE ScanTilesLastWins(_, _, _, _, _)
ScanTilesLastWins(wd, b, i, maxOverlap, best) ==
  LET ncols == MaxTileX(b) - MinTileX(b) + 1
      nrows == MaxTileY(b) - MinTileY(b) + 1
  IN  IF i >= ncols * nrows THEN best
      ELSE LET tx == MinTileX(b) + (i % ncols)
               ty == MinTileY(b) + (i \div ncols)
               c == Candidate(wd, b, tx, ty)
           IN  IF c # NULL /\ c.totalOverlap >= maxOverlap
                 THEN ScanTilesLastWins(wd, b, i + 1, c.totalOverlap, c)
                 ELSE ScanTilesLastWins(wd, b, i + 1, maxOverlap, best)

BestResolutionLastWins(wd, b) == ScanTilesLastWins(wd, b, 0, 0, NULL)

BestResolution(wd, b) == ScanTiles(wd, b, 0, 0, NULL)

\* a variant that probes at the bottom edge itself
FeetYNoProbe(b) == (b.y + bodyHeight) \div tileHeight

\* the foot sensors
FeetY(b) == (b.y + bodyHeight + Px(1)) \div tileHeight
LeftFootX(b) == (b.x + Px(2)) \div tileWidth
RightFootX(b) == (b.x + bodyWidth - Px(2)) \div tileWidth

VelocityGate == -HalfPx

GroundedCheck(wd, b) ==
  /\ b.vy >= VelocityGate
  /\ (IsSolid(wd, LeftFootX(b), FeetY(b)) \/ IsSolid(wd, RightFootX(b), FeetY(b)))

\* a variant that moves the sprite by the correction along both axes
ApplyResolutionBothAxes(sp, best) ==
  IF best = NULL THEN sp
  ELSE [x |-> sp.x + best.res.dx + best.res.dy, y |-> sp.y + best.res.dy + best.res.dx]

\* a variant that moves the sprite half of the way out of the tile
ApplyResolutionHalfway(sp, best) ==
  IF best = NULL THEN sp
  ELSE [x |-> sp.x + best.res.dx \div 2, y |-> sp.y + best.res.dy \div 2]

\* the sprite after the resolution of the winning candidate is applied
ApplyResolution(sp, best) ==
  IF best = NULL THEN sp
  ELSE [x |-> sp.x + best.res.dx, y |-> sp.y + best.res.dy]

\* a variant that corrects the position and leaves the velocity as it is
CheckTileCollisionsKeepVelocity(wd, b, sp, vx, vy) ==
  LET grounded == GroundedCheck(wd, b)
      best == BestResolution(wd, b)
  IN  [isGrounded |-> grounded,
       best |-> best,
       sprite |-> ApplyResolution(sp, best),
       vx |-> vx,
       vy |-> vy]

\* checkTileCollisions for the body b moving at (vx, vy): the grounded flag,
\* the winning candidate, the sprite after the single correction and the
\* velocity after it
CheckTileCollisions(wd, b, sp, vx, vy) ==
  LET grounded == GroundedCheck(wd, b)
      best == BestResolution(wd, b)
  IN  [isGrounded |-> grounded,
       best |-> best,
       sprite |-> ApplyResolution(sp, best),
       vx |-> IF best # NULL /\ best.res.stopVelocityX THEN 0 ELSE vx,
       vy |-> IF best # NULL /\ best.res.stopVelocityY THEN 0 ELSE vy]

\* the horizontal velocity update(input) sets before the collision check
InputVelocityX(input) ==
  IF input.left THEN -moveSpeed
  ELSE IF input.right THEN moveSpeed
  ELSE 0

\* a variant that jumps whether grounded or not
PlayerUpdateJumpsInAir(wd, b, sp, input) ==
  LET chk == CheckTileCollisions(wd, b, sp, InputVelocityX(input), b.vy)
      jump == input.jump
  IN  [body |-> [b EXCEPT !.vy = IF jump THEN jumpVelocity ELSE chk.vy],
       sprite |-> chk.sprite, best |-> chk.best,
       vx |-> chk.vx, isMoving |-> input.left \/ input.right, jumped |-> jump,
       pstate |-> [isGrounded |-> chk.isGrounded]]

\* PlayerSystem.update(input).  velocity.x and state.isMoving are written
\* here and read by nothing in the repository: the result reports them (vx,
\* isMoving) and the state keeps only what later ticks read.
PlayerUpdate(wd, b, sp, input) ==
  LET chk == CheckTileCollisions(wd, b, sp, InputVelocityX(input), b.vy)
      jump == input.jump /\ chk.isGrounded
  IN  [body |-> [b EXCEPT !.vy = IF jump THEN jumpVelocity ELSE chk.vy],
       sprite |-> chk.sprite, best |-> chk.best,
       vx |-> chk.vx, isMoving |-> input.left \/ input.right, jumped |-> jump,
       pstate |-> [isGrounded |-> chk.isGrounded]]


(***************************************************************************)
(* MiningSystem                                                            *)
(***************************************************************************)
VARIABLES
  mstate,                 \* MiningSystem.state: isActive, targetX, targetY,
                          \* direction, progress, hardness
  landingCooldownTimer,   \* milliseconds left of the landing cooldown
  wasGroundedLastFrame,
  targetIndicatorVisible  \* the target overlay created by create()

miningVars == <<mstate, landingCooldownTimer, wasGroundedLastFrame, targetIndicatorVisible>>

DOWN == "down"
LEFT == "left"
RIGHT == "right"
NONE == "none"

(***************************************************************************)
(* The mining progress is a JavaScript number with a fraction.  A number   *)
(* of the progress arithmetic is kept in fixed point, as seven limbs of 15 *)
(* bits, least significant first: five limbs of fraction (75 bits) and two *)
(* of integer part.  Every operation computes its exact result and rounds  *)
(* it to the 53 significant bits a double keeps, ties to even; the doubles *)
(* met here are 0 or lie between 2^-22 and 2^30, where the rounded results *)
(* are multiples of 2^-75.                                                 *)
(***************************************************************************)
FixBase == 2^15

FixOfInt(n) == <<0, 0, 0, 0, 0, n % FixBase, n \div FixBase>>

FixZero == FixOfInt(0)

FixOne == FixOfInt(1)

\* x + y + carry on limb sequences of one length; the carry out is dropped
RECURSIVE BigAdd(_, _, _)
BigAdd(x, y, carry) ==
  IF x = <<>> THEN <<>>
  ELSE The({<<sum % FixBase>> \o BigAdd(Tail(x), Tail(y), sum \div FixBase) :
            sum \in {x[1] + y[1] + carry}})

\* x * k + carry for one limb k; the result is one limb longer than x
RECURSIVE BigScale(_, _, _)
BigScale(x, k, carry) ==
  IF x = <<>> THEN <<carry>>
  ELSE The({<<sum % FixBase>> \o BigScale(Tail(x), k, sum \div FixBase) :
            sum \in {x[1] * k + carry}})

Zeros(n) == [i \in 1 .. n |-> 0]

\* x * y, of Len(x) + Len(y) limbs
RECURSIVE BigMul(_, _)
BigMul(x, y) ==
  IF y = <<>> THEN Zeros(Len(x))
  ELSE BigAdd(BigScale(x, y[1], 0) \o Zeros(Len(y) - 1),
              <<0>> \o BigMul(x, Tail(y)), 0)

\* x \div k and x % k for a divisor k of one limb, from the top limb down
RECURSIVE BigDiv(_, _, _)
BigDiv(x, k, rem) ==
  IF x = <<>> THEN [q |-> <<>>, r |-> rem]
  ELSE The({[q |-> Append(low.q, top \div k), r |-> low.r] :
            <<top, low>> \in
              {<<t, BigDiv(SubSeq(x, 1, Len(x) - 1), k, t % k)>> :
                 t \in {rem * FixBase + x[Len(x)]}}})

\* x < y for limb sequences of one length
RECURSIVE BigLess(_, _)
BigLess(x, y) ==
  IF x = <<>> THEN FALSE
  ELSE \/ x[Len(x)] < y[Len(y)]
       \/ /\ x[Len(x)] = y[Len(y)]
          /\ BigLess(SubSeq(x, 1, Len(x) - 1), SubSeq(y, 1, Len(y) - 1))

\* bit i of x
BitAt(x, i) == (x[i \div 15 + 1] \div 2^(i % 15)) % 2

\* the number of bits of a limb and of x
BitsOf(l) == CHOOSE k \in 0 .. 15 : l < 2^k /\ (k = 0 \/ 2^(k - 1) <= l)

TopLimb(x) ==
  CHOOSE i \in DOMAIN x : x[i] # 0 /\ \A j \in i + 1 .. Len(x) : x[j] = 0

BigBits(x) ==
  IF \A i \in DOMAIN x : x[i] = 0 THEN 0
  ELSE The({15 * (t - 1) + BitsOf(x[t]) : t \in {TopLimb(x)}})

\* the significant bits of a double
Significand == 53

\* x, or a value just above x when more is set, rounded to a multiple of
\* 2^cut, ties to even
RoundAt(x, more, cut) ==
  IF cut <= 0 THEN x
  ELSE LET down == [i \in DOMAIN x |->
                      IF 15 * i <= cut THEN 0
                      ELSE IF 15 * (i - 1) >= cut THEN x[i]
                      ELSE x[i] - (x[i] % 2^(cut - 15 * (i - 1)))]
           unit == [i \in DOMAIN x |->
                      IF i = cut \div 15 + 1 THEN 2^(cut % 15) ELSE 0]
           half == BitAt(x, cut - 1) = 1
           below == more \/ \E i \in 0 .. cut - 2 : BitAt(x, i) = 1
           odd == BitAt(x, cut) = 1
       IN  IF half /\ (odd \/ below) THEN BigAdd(down, unit, 0) ELSE down

\* the double nearest to x, or to a value just above x when more is set
RoundBig(x, more) ==
  The({RoundAt(x, more, bits - Significand) : bits \in {BigBits(x)}})

\* x + y, x * y and x / k as JavaScript computes them
FixAdd(x, y) == The({RoundBig(sum, FALSE) : sum \in {BigAdd(x, y, 0)}})

FixMul(x, y) ==
  The({SubSeq(RoundBig(product, FALSE), 6, 12) : product \in {BigMul(x, y)}})

FixDiv(x, k) == The({RoundBig(d.q, d.r # 0) : d \in {BigDiv(x, k, 0)}})

\* MiningConfig.miningSpeed
MiningSpeed == FixDiv(FixOfInt(MiningSpeedNum), MiningSpeedDen)

\* the lengths of the ticks the specifications take, in ms, and the
\* hardnesses of the tiles that can be mined
TickLengths == {0, 5, 16, 240, 250, 500, 1250, 2260, 250000, 500000}

Hardnesses == {TileRegistry[t].hardness : t \in {u \in TileType : TileRegistry[u].solid}}

\* (MiningConfig.miningSpeed / this.state.hardness) * deltaSeconds, computed
\* once for every hardness and tick length
ProgressIncs ==
  [hardness \in Hardnesses, delta \in TickLengths |->
     FixMul(FixDiv(MiningSpeed, hardness), FixDiv(FixOfInt(delta), 1000))]

ProgressInc(hardness, delta) == ProgressIncs[hardness, delta]

\* the state the constructor builds
InitialMiningState ==
  [isActive |-> FALSE, targetX |-> -1, targetY |-> -1, direction |-> NONE,
   progress |-> FixZero, hardness |-> 0]

\* a variant that looks at the left flag first
GetMiningDirectionLeftFirst(input) ==
  IF input.mineLeft THEN LEFT
  ELSE IF input.mineDown THEN DOWN
  ELSE IF input.mineRight THEN RIGHT
  ELSE NONE

\* getMiningDirection(input)
GetMiningDirection(input) ==
  IF input.mineDown THEN DOWN
  ELSE IF input.mineLeft THEN LEFT
  ELSE IF input.mineRight THEN RIGHT
  ELSE NONE

\* a variant whose sideways targets lie one row lower
GetTargetTileDiagonal(playerX, playerY, direction) ==
  LET playerTileX == playerX \div tileWidth
      playerTileY == playerY \div tileHeight
  IN  CASE direction = DOWN  -> [tileX |-> playerTileX, tileY |-> playerTileY + 1]
        [] direction = LEFT  -> [tileX |-> playerTileX - 1, tileY |-> playerTileY + 1]
        [] direction = RIGHT -> [tileX |-> playerTileX + 1, tileY |-> playerTileY + 1]
        [] OTHER -> NULL

\* getTargetTile(playerX, playerY, direction), NULL for no direction
GetTargetTile(playerX, playerY, direction) ==
  LET playerTileX == playerX \div tileWidth
      playerTileY == playerY \div tileHeight
  IN  CASE direction = DOWN  -> [tileX |-> playerTileX, tileY |-> playerTileY + 1]
        [] direction = LEFT  -> [tileX |-> playerTileX - 1, tileY |-> playerTileY]
        [] direction = RIGHT -> [tileX |-> playerTileX + 1, tileY |-> playerTileY]
        [] OTHER -> NULL

\* a variant that stores the hardness of dirt for every tile
StartMiningAsDirt(tileX, tileY, direction, hardness) ==
  [isActive |-> TRUE, targetX |-> tileX, targetY |-> tileY, direction |-> direction,
   progress |-> FixZero, hardness |-> TileRegistry[DIRT].hardness]

\* startMining(tileX, tileY, direction, hardness)
StartMining(tileX, tileY, direction, hardness) ==
  [isActive |-> TRUE, targetX |-> tileX, targetY |-> tileY, direction |-> direction,
   progress |-> FixZero, hardness |-> hardness]

\* a variant that leaves the progress as it is
ResetMiningKeepsProgress(ms) ==
  [ms EXCEPT !.isActive = FALSE, !.direction = NONE]

\* resetMining(): target and hardness are left as they are
ResetMining(ms) ==
  [ms EXCEPT !.isActive = FALSE, !.progress = FixZero, !.direction = NONE]

\* a variant that starts a session only when none is active
IsNewTargetIdleOnly(ms, tileX, tileY) ==
  ~ms.isActive

\* a variant that starts a session on every tick
IsNewTargetAlways(ms, tileX, tileY) ==
  TRUE

\* whether the tick starts a new session (line 122)
IsNewTarget(ms, tileX, tileY) ==
  ~ms.isActive \/ ms.targetX # tileX \/ ms.targetY # tileY

\* a variant that breaks only past 1.0
IsBrokenStrict(progress) == BigLess(FixOne, progress)

\* a variant that breaks at half the progress
IsBrokenAtHalf(progress) == ~BigLess(FixAdd(progress, progress), FixOne)

\* the break test of line 134
IsBroken(progress) == ~BigLess(progress, FixOne)

\* breakTile(tileX, tileY, tileType): the result and the tilemap after it
\* a variant that reports the break and leaves the tile in place
BreakTileKeepsTile(tm, tileX, tileY, tileType) ==
  [tm |-> Called(tm, tileX, tileY, TRUE),
   result |-> [success |-> TRUE, tileX |-> tileX, tileY |-> tileY,
               tileType |-> tileType, broken |-> TRUE]]

BreakTile(tm, tileX, tileY, tileType) ==
  LET d == DestroyTile(tm, tileX, tileY)
  IN  [tm |-> d.tm,
       result |-> [success |-> d.ok, tileX |-> tileX, tileY |-> tileY,
                   tileType |-> tileType, broken |-> TRUE]]

\* a variant in which landing does not arm the cooldown
CooldownAfterNoArm(timer, wasGrounded, isGrounded, delta) ==
  IF timer > 0 THEN timer - delta ELSE timer

\* a variant that counts the cooldown down only while the body is in the air
CooldownAfterInAir(timer, wasGrounded, isGrounded, delta) ==
  LET counted == IF timer > 0 /\ ~isGrounded THEN timer - delta ELSE timer
  IN  IF ~wasGrounded /\ isGrounded THEN landingCooldown ELSE counted

\* a variant that arms the cooldown on every grounded tick
CooldownAfterRearms(timer, wasGrounded, isGrounded, delta) ==
  LET counted == IF timer > 0 THEN timer - delta ELSE timer
  IN  IF isGrounded THEN landingCooldown ELSE counted

\* the cooldown bookkeeping of lines 73-82
CooldownAfter(timer, wasGrounded, isGrounded, delta) ==
  LET counted == IF timer > 0 THEN timer - delta ELSE timer
  IN  IF ~wasGrounded /\ isGrounded THEN landingCooldown ELSE counted

\* a variant that returns null without resetMining()
IdleKeepsSession(ms, timer, isGrounded, tm, direction, target) ==
  [mstate |-> ms, timer |-> timer, wasGrounded |-> isGrounded,
   visible |-> FALSE, tm |-> tm, result |-> NULL,
   direction |-> direction, target |-> target,
   started |-> FALSE, added |-> FALSE, peak |-> FixZero, hardness |-> 0]

\* a tick that ends in resetMining() and returns null
Idle(ms, timer, isGrounded, tm, direction, target) ==
  [mstate |-> ResetMining(ms), timer |-> timer, wasGrounded |-> isGrounded,
   visible |-> FALSE, tm |-> tm, result |-> NULL,
   direction |-> direction, target |-> target,
   started |-> FALSE, added |-> FALSE, peak |-> FixZero, hardness |-> 0]

\* MiningSystem.update(input, playerX, playerY, isGrounded, delta): the state
\* after the call and its return value (result), with what the call did on
\* the way: the direction and target it resolved, whether it started a
\* session (started), added progress (added) and the progress it tested
\* against 1.0 (peak)
MiningUpdate(ms, timer0, wasGrounded, tm, input, playerX, playerY, isGrounded, delta) ==
  LET timer == CooldownAfter(timer0, wasGrounded, isGrounded, delta)
      direction == GetMiningDirection(input)
      targetTile == GetTargetTile(playerX, playerY, direction)
  IN  IF direction = NONE
        THEN Idle(ms, timer, isGrounded, tm, direction, NULL)
      ELSE IF ~isGrounded \/ timer > 0
        THEN Idle(ms, timer, isGrounded, tm, direction, NULL)
      ELSE IF targetTile = NULL
        THEN Idle(ms, timer, isGrounded, tm, direction, NULL)
      ELSE LET tileX == targetTile.tileX
               tileY == targetTile.tileY
               tileType == GetTileAt(tm.worldData, tileX, tileY)
           IN  IF tileType = NoTile
                 THEN Idle(ms, timer, isGrounded, tm, direction, targetTile)
               ELSE IF ~TileRegistry[tileType].solid
                 THEN Idle(ms, timer, isGrounded, tm, direction, targetTile)
               ELSE The({
                 IF IsBroken(progressed.progress)
                   THEN LET br == BreakTile(tm, tileX, tileY, tileType)
                        IN  [mstate |-> ResetMining(progressed), timer |-> timer,
                             wasGrounded |-> isGrounded, visible |-> FALSE,
                             tm |-> br.tm, result |-> br.result,
                             direction |-> direction, target |-> targetTile,
                             started |-> IsNewTarget(ms, tileX, tileY),
                             added |-> TRUE,
                             peak |-> progressed.progress,
                             hardness |-> progressed.hardness]
                   ELSE [mstate |-> progressed, timer |-> timer,
                         wasGrounded |-> isGrounded, visible |-> TRUE,
                         tm |-> tm, result |-> NULL,
                         direction |-> direction, target |-> targetTile,
                         started |-> IsNewTarget(ms, tileX, tileY),
                         added |-> TRUE,
                         peak |-> progressed.progress,
                         hardness |-> progressed.hardness] :
                 progressed \in
                   {[session EXCEPT
                       !.progress = FixAdd(@, ProgressInc(session.hardness, delta))] :
                    session \in
                      {IF IsNewTarget(ms, tileX, tileY)
                         THEN StartMining(tileX, tileY, direction,
                                          TileRegistry[tileType].hardness)
                         ELSE ms}}})


(***************************************************************************)
(* utils/RNG.ts.  A JavaScript number holding an integer is kept as a sign *)
(* and a magnitude of four 16-bit limbs, least significant first (64       *)
(* bits), so that the products of the generator, which exceed 32 bits, are *)
(* computed exactly and then rounded to the 53 significant bits a double   *)
(* keeps.                                                                  *)
(***************************************************************************)
LimbBase == 2^16

\* the magnitude of n, for 0 <= n < 2^31
Limbs(n) == <<n % LimbBase, n \div LimbBase, 0, 0>>

ZeroLimbs == <<0, 0, 0, 0>>

AddLimbs(x, y) ==
  LET s1 == x[1] + y[1]
      s2 == x[2] + y[2] + s1 \div LimbBase
      s3 == x[3] + y[3] + s2 \div LimbBase
      s4 == x[4] + y[4] + s3 \div LimbBase
  IN  <<s1 % LimbBase, s2 % LimbBase, s3 % LimbBase, s4 % LimbBase>>

\* x - y for x >= y
SubLimbs(x, y) ==
  LET d1 == x[1] - y[1]
      d2 == x[2] - y[2] + d1 \div LimbBase
      d3 == x[3] - y[3] + d2 \div LimbBase
      d4 == x[4] - y[4] + d3 \div LimbBase
  IN  <<d1 % LimbBase, d2 % LimbBase, d3 % LimbBase, d4 % LimbBase>>

LessLimbs(x, y) ==
  \/ x[4] < y[4]
  \/ x[4] = y[4] /\ x[3] < y[3]
  \/ x[4] = y[4] /\ x[3] = y[3] /\ x[2] < y[2]
  \/ x[4] = y[4] /\ x[3] = y[3] /\ x[2] = y[2] /\ x[1] < y[1]

\* x * k for a factor k < 2^15
ScaleLimbs(x, k) ==
  LET p1 == x[1] * k
      p2 == x[2] * k + p1 \div LimbBase
      p3 == x[3] * k + p2 \div LimbBase
      p4 == x[4] * k + p3 \div LimbBase
  IN  <<p1 % LimbBase, p2 % LimbBase, p3 % LimbBase, p4 % LimbBase>>

\* x * 2^16
ShiftLimbs(x) == <<0, x[1], x[2], x[3]>>

\* the number of bits of a limb and of a magnitude
LimbBits(l) == IF l = 0 THEN 0 ELSE CHOOSE k \in 1 .. 16 : 2^(k - 1) <= l /\ l < 2^k

BitLength(x) ==
  IF x[4] # 0 THEN 48 + LimbBits(x[4])
  ELSE IF x[3] # 0 THEN 32 + LimbBits(x[3])
  ELSE IF x[2] # 0 THEN 16 + LimbBits(x[2])
  ELSE LimbBits(x[1])

\* the double nearest to the integer x: 53 significant bits, ties to even
DoubleBits == 53

RoundToDouble(x) ==
  IF BitLength(x) <= DoubleBits THEN x
  ELSE LET unit == 2^(BitLength(x) - DoubleBits)
           rest == x[1] % unit
           odd == (x[1] \div unit) % 2 = 1
           down == <<x[1] - rest, x[2], x[3], x[4]>>
       IN  IF 2 * rest > unit \/ (2 * rest = unit /\ odd)
             THEN AddLimbs(down, Limbs(unit))
             ELSE down

\* a JavaScript number holding an integer
JsInt(neg, mag) == [neg |-> neg /\ mag # ZeroLimbs, mag |-> mag]

\* the LCG parameters of next(); the modulus m is 2^32, two limbs
LcgA == 1664525
LcgC == 1013904223

\* a * current, as a double
LcgProduct(current) ==
  JsInt(current.neg,
        RoundToDouble(AddLimbs(ScaleLimbs(current.mag, LcgA % LimbBase),
                               ShiftLimbs(ScaleLimbs(current.mag, LcgA \div LimbBase)))))

\* n + c, as a double
LcgSum(n) ==
  IF ~n.neg THEN JsInt(FALSE, RoundToDouble(AddLimbs(n.mag, Limbs(LcgC))))
  ELSE IF LessLimbs(n.mag, Limbs(LcgC))
    THEN JsInt(FALSE, SubLimbs(Limbs(LcgC), n.mag))
    ELSE JsInt(TRUE, RoundToDouble(SubLimbs(n.mag, Limbs(LcgC))))

\* a variant that takes the remainder by 2^48
LcgRemainderWide(n) == JsInt(n.neg, <<n.mag[1], n.mag[2], n.mag[3], 0>>)

\* n % m: the remainder keeps the sign of n
LcgRemainder(n) == JsInt(n.neg, <<n.mag[1], n.mag[2], 0, 0>>)

\* the state next() leaves: (a * current + c) % m
RngStep(current) == LcgRemainder(LcgSum(LcgProduct(current)))

\* an integer n of at most 31 bits as a JavaScript number
JsNumber(n) == IF n < 0 THEN JsInt(TRUE, Limbs(-n)) ELSE JsInt(FALSE, Limbs(n))

\* new RNG(seed)
NewRNG(seed) == [seed |-> seed, current |-> seed]

\* RNG.next(): the value returned is current / m, kept as its numerator
RngNext(r) ==
  The({[rng |-> [r EXCEPT !.current = c], value |-> c] : c \in {RngStep(r.current)}})

\* a value of next() lies in [0, 1): its numerator lies in [0, m)
InUnitInterval(v) == ~v.neg /\ v.mag[3] = 0 /\ v.mag[4] = 0

\* the least numerators n with n / m >= 0.02 and n / m >= 0.05
DirtOreBelow == 85899346
StoneOreBelow == 214748365

\* RNG.nextBool(probability): next() < probability, for the two
\* probabilities the generator asks for, given by the numerators below
NextBool(r, below) ==
  The({[rng |-> n.rng,
        value |-> n.value.neg \/ LessLimbs(n.value.mag, Limbs(below))] :
       n \in {RngNext(r)}})

\* RNG.getSeed()
RngGetSeed(r) == r.seed

\* a reset() that leaves the generator where it is
RngResetKeepsCurrent(r) == [r EXCEPT !.current = r.current]

\* RNG.reset()
RngReset(r) == [r EXCEPT !.current = r.seed]

(***************************************************************************)
(* systems/GenerationSystem.ts.  Math.sin is tabulated, in thousandths     *)
(* rounded down, over the columns and rows of the worlds generated here.   *)
(* The surface term is compared with whole numbers of rows and is whole    *)
(* only at x = 0, so rounding down keeps every comparison; no noise entry  *)
(* lies within 20 thousandths of the cave threshold.                       *)
(***************************************************************************)
\* Math.sin(x * 0.2) * 2 for x = 0 .. 19
SurfaceVariation == <<0, 397, 778, 1129, 1434, 1682, 1864, 1970, 1999, 1947,
                      1818, 1616, 1350, 1031, 669, 282, -117, -512, -886, -1224>>

\* simplexNoise(x, y, 0.1) for x = 0 .. 3 and y = 0 .. 5
NoiseTable == << <<500, 498, 498, 501, 508, 521>>,
                 <<577, 575, 572, 570, 570, 573>>,
                 <<653, 649, 643, 636, 628, 623>>,
                 <<724, 719, 710, 697, 683, 670>> >>

SimplexNoise(x, y) == NoiseTable[x + 1][y + 1]

CaveThreshold == 600

\* a variant that draws for the ore test before it tests for a cave
GenerateTileAtDrawsInCaves(r, x, y, p) ==
  IF y < p.surfaceDepth THEN [tile |-> EMPTY, rng |-> r]
  ELSE IF 1000 * y < 1000 * p.surfaceDepth + SurfaceVariation[x + 1]
    THEN [tile |-> EMPTY, rng |-> r]
  ELSE IF y < p.surfaceDepth + p.dirtDepth
    THEN The({[tile |-> IF b.value THEN ORE ELSE DIRT, rng |-> b.rng] :
              b \in {NextBool(r, DirtOreBelow)}})
  ELSE The({[tile |-> IF SimplexNoise(x, y) > CaveThreshold THEN EMPTY
                      ELSE IF b.value THEN ORE
                      ELSE IF y >= p.height - 2 THEN BEDROCK
                      ELSE STONE,
             rng |-> b.rng] :
            b \in {NextBool(r, StoneOreBelow)}})

\* a variant that lays bedrock in the last row only
GenerateTileAtThinBedrock(r, x, y, p) ==
  IF y < p.surfaceDepth THEN [tile |-> EMPTY, rng |-> r]
  ELSE IF 1000 * y < 1000 * p.surfaceDepth + SurfaceVariation[x + 1]
    THEN [tile |-> EMPTY, rng |-> r]
  ELSE IF y < p.surfaceDepth + p.dirtDepth
    THEN The({[tile |-> IF b.value THEN ORE ELSE DIRT, rng |-> b.rng] :
              b \in {NextBool(r, DirtOreBelow)}})
  ELSE IF SimplexNoise(x, y) > CaveThreshold THEN [tile |-> EMPTY, rng |-> r]
  ELSE The({[tile |-> IF b.value THEN ORE
                      ELSE IF y >= p.height - 1 THEN BEDROCK
                      ELSE STONE,
             rng |-> b.rng] :
            b \in {NextBool(r, StoneOreBelow)}})

\* generateTileAt(x, y, surfaceDepth, dirtDepth) with the generator r
GenerateTileAt(r, x, y, p) ==
  IF y < p.surfaceDepth THEN [tile |-> EMPTY, rng |-> r]
  ELSE IF 1000 * y < 1000 * p.surfaceDepth + SurfaceVariation[x + 1]
    THEN [tile |-> EMPTY, rng |-> r]
  ELSE IF y < p.surfaceDepth + p.dirtDepth
    THEN The({[tile |-> IF b.value THEN ORE ELSE DIRT, rng |-> b.rng] :
              b \in {NextBool(r, DirtOreBelow)}})
  ELSE IF SimplexNoise(x, y) > CaveThreshold THEN [tile |-> EMPTY, rng |-> r]
  ELSE The({[tile |-> IF b.value THEN ORE
                      ELSE IF y >= p.height - 2 THEN BEDROCK
                      ELSE STONE,
             rng |-> b.rng] :
            b \in {NextBool(r, StoneOreBelow)}})

\* generateTiles(): the cells i .. j - 1 of the row-major order "for y, for
\* x", generated one after the other with the generator r; the run is split
\* in two halves, the second continuing with the generator the first left
RECURSIVE GenerateCells(_, _, _, _)
GenerateCells(i, j, r, p) ==
  IF j = i THEN [tiles |-> <<>>, rng |-> r]
  ELSE IF j = i + 1
    THEN The({[tiles |-> <<cell.tile>>, rng |-> cell.rng] :
              cell \in {GenerateTileAt(r, i % p.width, i \div p.width, p)}})
  ELSE The({The({[tiles |-> first.tiles \o rest.tiles, rng |-> rest.rng] :
                 rest \in {GenerateCells((i + j) \div 2, j, first.rng, p)}}) :
            first \in {GenerateCells(i, (i + j) \div 2, r, p)}})

GenerateTiles(r, p) ==
  The({[tiles |-> [y \in 1 .. p.height |->
                     [x \in 1 .. p.width |-> cells.tiles[(y - 1) * p.width + x]]],
        rng |-> cells.rng] :
       cells \in {GenerateCells(0, p.width * p.height, r, p)}})

\* WorldConfig.seed
ConfigSeed == JsNumber(0)

\* params?.seed ?? (WorldConfig.seed || Date.now()), at the time now
ResolveSeed(seed, now) ==
  IF seed # NULL THEN seed
  ELSE IF ConfigSeed.mag # ZeroLimbs THEN ConfigSeed
  ELSE now

\* a constructor that seeds its generator from the clock
NewGenerationSystemClockSeeded(p, seed, now) ==
  [params |-> [width |-> p.width, height |-> p.height,
               seed |-> ResolveSeed(seed, now),
               surfaceDepth |-> p.surfaceDepth, dirtDepth |-> p.dirtDepth],
   rng |-> NewRNG(now)]

\* new GenerationSystem(params) at the time now; seed is NULL when omitted
NewGenerationSystem(p, seed, now) ==
  [params |-> [width |-> p.width, height |-> p.height,
               seed |-> ResolveSeed(seed, now),
               surfaceDepth |-> p.surfaceDepth, dirtDepth |-> p.dirtDepth],
   rng |-> NewRNG(ResolveSeed(seed, now))]

\* generate(): the world and the system left behind
Generate(g) ==
  The({[system |-> [g EXCEPT !.rng = t.rng],
        data |-> [tiles |-> t.tiles, width |-> g.params.width,
                  height |-> g.params.height, seed |-> g.params.seed]] :
       t \in {GenerateTiles(g.rng, g.params)}})

VARIABLES
  generators,       \* the GenerationSystem instances constructed, NULL before
  generated,        \* the worlds generate() returned, per instance, in order
  constructed,      \* the seed each constructor was given (NULL when omitted)
                    \* and its Date.now(), per instance, NULL before
  rng,              \* an RNG driven through its interface, NULL before
  rngDraws,         \* the values next() returned since construction or reset()
  rngEarlier        \* the values drawn before the last reset(), -1 if never reset

genVars == <<generators, generated, constructed, rng, rngDraws, rngEarlier>>

\* the instances constructed side by side
Instances == 1 .. 2

(***************************************************************************)
(* InputSystem and MainScene                                               *)
(***************************************************************************)
VARIABLES
  phase,            \* what the frame runs next: the physics world step
                    \* ("step"), MainScene.update ("update") or its end ("end")
  obs,              \* the call just made and what it did: the frame's
                    \* MainScene.update with the state it started from, or a
                    \* call of the tilemap's interface; NoCall otherwise
  lastResult,       \* what the mining update of the frame before returned
  sessionTicks,     \* the ticks the running session has lasted (0 when Idle)
  sessionMs,        \* the delta added up over those ticks
  lastDir,          \* the direction resolved by the last tick, NONE if it left no session
  landAcc           \* the delta accumulated since the last landing tick

sceneVars == <<phase, obs, lastResult, sessionTicks, sessionMs, lastDir, landAcc>>

vars == <<worldData, tileSprites, tileVariations, body, sprite, pstate,
          mstate, landingCooldownTimer, wasGroundedLastFrame, targetIndicatorVisible,
          phase, obs, lastResult, sessionTicks, sessionMs, lastDir, landAcc,
          generators, generated, constructed, rng, rngDraws, rngEarlier>>

\* the longest mining session the model follows, in ticks
MaxSessionTicks == 3

NoCall == [called |-> "none"]

BOOL == {TRUE, FALSE}

\* the directions held during a frame
Keys == [left : BOOL, right : BOOL, down : BOOL, jump : BOOL]

\* InputSystem.getInput: k holds isMovingLeft, isMovingRight, isMovingDown and
\* isJumping as the keyboard or the pointer set them; the mining flags follow
\* the movement flags
GetInput(k) ==
  [left |-> k.left, right |-> k.right, jump |-> k.jump,
   mineDown |-> k.down, mineLeft |-> k.left, mineRight |-> k.right]

\* PlayerSystem.getCenterPosition(): the centre of the body
GetCenterPosition(b) ==
  [x |-> b.x + bodyWidth \div 2, y |-> b.y + bodyHeight \div 2]

\* the accumulated delta is only compared with landingCooldown
CapAcc(n) == Min(n, landingCooldown)

(***************************************************************************)
(* The physics world step of a frame.  The engine integrates velocity and  *)
(* gravity and keeps the body inside the world bounds; it is outside the   *)
(* repository, so the step places the body at any sampled position with    *)
(* any sampled vertical velocity and moves the sprite with it.             *)
(***************************************************************************)
PhysicsStep(x, y, vy) ==
  /\ phase = "step"
  /\ phase' = "update"
  /\ body' = [x |-> x, y |-> y, vy |-> vy]
  /\ sprite' = SpriteOf(x, y)
  /\ UNCHANGED genVars
  /\ UNCHANGED <<worldData, tileSprites, tileVariations, pstate,
                 mstate, landingCooldownTimer, wasGroundedLastFrame,
                 targetIndicatorVisible, obs, lastResult, sessionTicks, sessionMs,
                 lastDir, landAcc>>

(***************************************************************************)
(* MainScene.update(time, delta) with the keys k held.  The depth tracker  *)
(* and the nugget counter it also updates feed the HTML overlay only and   *)
(* are left out.                                                           *)
(***************************************************************************)
SceneUpdate(k, delta) ==
  /\ phase = "update"
  /\ sessionTicks < MaxSessionTicks
  /\ \E playerPos \in {GetCenterPosition(body)} :
     \E pu \in {PlayerUpdate(worldData, body, sprite, GetInput(k))} :
     \E mu \in {MiningUpdate(mstate, landingCooldownTimer, wasGroundedLastFrame,
                             Tilemap, GetInput(k), playerPos.x, playerPos.y,
                             pu.pstate.isGrounded, delta)} :
         /\ body' = pu.body
         /\ sprite' = pu.sprite
         /\ pstate' = pu.pstate
         /\ mstate' = mu.mstate
         /\ landingCooldownTimer' = mu.timer
         /\ wasGroundedLastFrame' = mu.wasGrounded
         /\ targetIndicatorVisible' = mu.visible
         /\ worldData' = mu.tm.worldData
         /\ tileSprites' = mu.tm.tileSprites
         /\ tileVariations' = mu.tm.tileVariations
         /\ obs' = [called |-> "update", delta |-> delta, keys |-> k,
                    \* the state the update started from
                    world |-> worldData, sprites |-> tileSprites,
                    vy |-> body.vy, wasSprite |-> sprite,
                    before |-> mstate, wasGrounded |-> pstate.isGrounded,
                    lastDir |-> lastDir,
                    \* what playerSystem.update did
                    best |-> pu.best, vx |-> pu.vx, jumped |-> pu.jumped,
                    \* what miningSystem.update was given, did and returned
                    player |-> playerPos,
                    direction |-> mu.direction, target |-> mu.target,
                    started |-> mu.started, added |-> mu.added,
                    peak |-> mu.peak, hardness |-> mu.hardness,
                    calls |-> mu.tm.calls, result |-> mu.result,
                    \* the delta the session had added up when tested
                    elapsed |-> IF ~mu.added THEN 0
                                ELSE (IF mu.started THEN 0 ELSE sessionMs) + delta]
         /\ sessionTicks' = IF mu.mstate.isActive THEN sessionTicks + 1 ELSE 0
         /\ sessionMs' = IF mu.mstate.isActive
                           THEN (IF mu.started THEN 0 ELSE sessionMs) + delta
                           ELSE 0
         /\ lastDir' = IF mu.mstate.isActive THEN mu.direction ELSE NONE
         /\ landAcc' = IF ~pstate.isGrounded /\ pu.pstate.isGrounded
                         THEN 0
                         ELSE CapAcc(landAcc + delta)
  /\ phase' = "end"
  /\ UNCHANGED genVars
  /\ UNCHANGED lastResult

\* the frame ends: update's locals are gone, its mining result is the last one
EndFrame ==
  /\ phase = "end"
  /\ phase' = "step"
  /\ lastResult' = obs.result
  /\ obs' = NoCall
  /\ UNCHANGED genVars
  /\ UNCHANGED <<worldData, tileSprites, tileVariations, body, sprite, pstate,
                 mstate, landingCooldownTimer, wasGroundedLastFrame,
                 targetIndicatorVisible, sessionTicks, sessionMs, lastDir, landAcc>>

(***************************************************************************)
(* The state after MainScene.create(): the world generated and populated,  *)
(* the player spawned, the mining system constructed.                      *)
(***************************************************************************)
startTileX == 0
startTileY == 0

Init ==
  /\ \E g \in InitialTiles :
       /\ worldData = [tiles |-> g, width |-> WorldWidth, height |-> WorldHeight]
       /\ tileSprites = PopulateTilemap(g)
       /\ tileVariations = PopulateTilemap(g)
  /\ sprite = [x |-> startTileX * tileWidth + tileWidth \div 2,
               y |-> startTileY * tileHeight + tileHeight \div 2]
  /\ body = [x |-> startTileX * tileWidth + tileWidth \div 2 - spriteWidth \div 2 + bodyOffsetX,
             y |-> startTileY * tileHeight + tileHeight \div 2 - spriteHeight \div 2 + bodyOffsetY,
             vy |-> 0]
  /\ pstate = [isGrounded |-> FALSE]
  /\ mstate = InitialMiningState
  /\ landingCooldownTimer = 0
  /\ wasGroundedLastFrame = FALSE
  /\ targetIndicatorVisible = FALSE
  /\ phase = "step"
  /\ obs = NoCall
  /\ lastResult = NULL
  /\ sessionTicks = 0
  /\ sessionMs = 0
  /\ lastDir = NONE
  /\ landAcc = landingCooldown
  /\ generators = [i \in Instances |-> NULL]
  /\ generated = [i \in Instances |-> <<>>]
  /\ constructed = [i \in Instances |-> NULL]
  /\ rng = NULL
  /\ rngDraws = <<>>
  /\ rngEarlier = -1

(***************************************************************************)
(* The game loop: frames of a physics step and an update, with the body    *)
(* sampled in the air above the ground row, standing on it and standing    *)
(* one row below, in either column.                                        *)
(***************************************************************************)
Deltas == {0, 5, 1250}
CoarseX == {Px(8), Px(40)}
CoarseY == {Px(4), Px(12), Px(44)}
CoarseVy == {0}

Next ==
  \/ \E x \in CoarseX, y \in CoarseY, vy \in CoarseVy : PhysicsStep(x, y, vy)
  \/ \E k \in Keys, delta \in Deltas : SceneUpdate(k, delta)
  \/ EndFrame

Spec == Init /\ [][Next]_vars

(***************************************************************************)
(* The collision step on finely sampled bodies: inside one column, with a  *)
(* 1 px, a 4 px and an 8 px overhang into the next; half a pixel above    *)
(* the ground row, resting on it, sunk 0.5, 1 and 8 px into it, across two *)
(* rows, inside the bottom row and on the bottom of the world; rising      *)
(* faster than the velocity gate, at the gate, at rest and falling.        *)
(* Only the jump key is used, so no mining takes place.                    *)
(***************************************************************************)
FineX == {Px(8), Px(17), Px(20), Px(24)}
FineY == {Px(11) + HalfPx, Px(12), Px(12) + HalfPx, Px(13), Px(20), Px(54), Px(70), Px(76)}
FineVy == {Px(-1), -HalfPx, 0, Px(5)}
CollisionKeys == {k \in Keys : ~k.left /\ ~k.right /\ ~k.down}
CollisionDeltas == {16}

NextCollision ==
  \/ \E x \in FineX, y \in FineY, vy \in FineVy : PhysicsStep(x, y, vy)
  \/ \E k \in CollisionKeys, delta \in CollisionDeltas : SceneUpdate(k, delta)
  \/ EndFrame

SpecCollision == Init /\ [][NextCollision]_vars

(***************************************************************************)
(* The tilemap's interface called directly, at coordinates in and around   *)
(* the grid.                                                               *)
(***************************************************************************)
Coords == (-1 .. WorldWidth) \X (-1 .. WorldHeight)

GetTileAtCall(x, y) ==
  /\ phase = "step"
  /\ obs' = [called |-> "getTileAt", x |-> x, y |-> y,
             world |-> worldData, sprites |-> tileSprites,
             ret |-> GetTileAt(worldData, x, y)]
  /\ UNCHANGED genVars
  /\ UNCHANGED <<worldData, tileSprites, tileVariations, body, sprite, pstate,
                 mstate, landingCooldownTimer, wasGroundedLastFrame,
                 targetIndicatorVisible, phase, lastResult, sessionTicks, sessionMs,
                 lastDir, landAcc>>

IsSolidCall(x, y) ==
  /\ phase = "step"
  /\ obs' = [called |-> "isSolid", x |-> x, y |-> y,
             world |-> worldData, sprites |-> tileSprites,
             ret |-> IsSolid(worldData, x, y)]
  /\ UNCHANGED genVars
  /\ UNCHANGED <<worldData, tileSprites, tileVariations, body, sprite, pstate,
                 mstate, landingCooldownTimer, wasGroundedLastFrame,
                 targetIndicatorVisible, phase, lastResult, sessionTicks, sessionMs,
                 lastDir, landAcc>>

DestroyTileCall(x, y) ==
  /\ phase = "step"
  /\ \E d \in {DestroyTile(Tilemap, x, y)} :
       /\ worldData' = d.tm.worldData
       /\ tileSprites' = d.tm.tileSprites
       /\ tileVariations' = d.tm.tileVariations
       /\ obs' = [called |-> "destroyTile", x |-> x, y |-> y,
                  world |-> worldData, sprites |-> tileSprites,
                  ret |-> d.ok]
  /\ UNCHANGED genVars
  /\ UNCHANGED <<body, sprite, pstate,
                 mstate, landingCooldownTimer, wasGroundedLastFrame,
                 targetIndicatorVisible, phase, lastResult, sessionTicks, sessionMs,
                 lastDir, landAcc>>

NextTilemap ==
  \/ \E c \in Coords : GetTileAtCall(c[1], c[2])
  \/ \E c \in Coords : IsSolidCall(c[1], c[2])
  \/ \E c \in Coords : DestroyTileCall(c[1], c[2])

SpecTilemap == Init /\ [][NextTilemap]_vars

(***************************************************************************)
(* The game loop with MiningSystem.update called a second time at the end  *)
(* of a frame, with the input, position and grounded flag of the frame's   *)
(* own call and a delta of its own.                                        *)
(***************************************************************************)
MiningUpdateAgain(delta) ==
  /\ phase = "end"
  /\ \E mu \in {MiningUpdate(mstate, landingCooldownTimer, wasGroundedLastFrame,
                             Tilemap, GetInput(obs.keys), obs.player.x, obs.player.y,
                             pstate.isGrounded, delta)} :
         /\ mstate' = mu.mstate
         /\ landingCooldownTimer' = mu.timer
         /\ wasGroundedLastFrame' = mu.wasGrounded
         /\ targetIndicatorVisible' = mu.visible
         /\ worldData' = mu.tm.worldData
         /\ tileSprites' = mu.tm.tileSprites
         /\ tileVariations' = mu.tm.tileVariations
         /\ obs' = [called |-> "updateAgain", delta |-> delta,
                    \* the state the first call left and what it returned
                    first |-> [mstate |-> mstate, timer |-> landingCooldownTimer,
                               wasGrounded |-> wasGroundedLastFrame,
                               visible |-> targetIndicatorVisible,
                               world |-> worldData, sprites |-> tileSprites,
                               result |-> obs.result],
                    \* what the second call did and returned
                    direction |-> mu.direction, target |-> mu.target,
                    started |-> mu.started, added |-> mu.added,
                    peak |-> mu.peak, hardness |-> mu.hardness,
                    calls |-> mu.tm.calls, result |-> mu.result]
  /\ phase' = "again"
  /\ UNCHANGED genVars
  /\ UNCHANGED <<body, sprite, pstate, lastResult, sessionTicks, sessionMs,
                 lastDir, landAcc>>

MiningKeys == {k \in Keys : ~k.jump}
RepeatDeltas == {0, 5}

NextRepeat ==
  \/ \E x \in CoarseX, y \in CoarseY, vy \in CoarseVy : PhysicsStep(x, y, vy)
  \/ \E k \in MiningKeys, delta \in Deltas : SceneUpdate(k, delta)
  \/ \E delta \in RepeatDeltas : MiningUpdateAgain(delta)
  \/ EndFrame

SpecRepeat == Init /\ [][NextRepeat]_vars

(***************************************************************************)
(* Mining sessions on their own: the body stands in the left column, on    *)
(* the ground row or one row below, and holds the down key or none, over   *)
(* ticks that split the breaking times of dirt (500 ms) and ore (2500 ms)  *)
(* in several ways.                                                        *)
(***************************************************************************)
SessionX == {Px(8)}
SessionY == {Px(12), Px(44)}
SessionKeys == {k \in Keys : ~k.left /\ ~k.right /\ ~k.jump}
SessionDeltas == {240, 250, 500, 1250, 2260}

NextSession ==
  \/ \E x \in SessionX, y \in SessionY : PhysicsStep(x, y, 0)
  \/ \E k \in SessionKeys, delta \in SessionDeltas : SceneUpdate(k, delta)
  \/ EndFrame

SpecSession == Init /\ [][NextSession]_vars

(***************************************************************************)
(* Long mining sessions: the body stands in either column, on the ground   *)
(* row or in a pocket one row below (in the right column, on the bedrock   *)
(* cell), and holds the down key or none over ticks of 1.25 s, 250 s and   *)
(* 500 s; bedrock, of hardness 999, takes 499.5 s.                         *)
(***************************************************************************)
BedrockDeltas == {1250, 250000, 500000}

NextBedrock ==
  \/ \E x \in CoarseX, y \in SessionY : PhysicsStep(x, y, 0)
  \/ \E k \in SessionKeys, delta \in BedrockDeltas : SceneUpdate(k, delta)
  \/ EndFrame

SpecBedrock == Init /\ [][NextBedrock]_vars

(***************************************************************************)
(* Jumping and mining by a body that rises, hangs or rests: the positions  *)
(* of the game loop, with vertical velocities on both sides of the         *)
(* grounded test's gate of -0.5 px/s, and every combination of keys.       *)
(***************************************************************************)
JumpVy == {Px(-1), -HalfPx, 0}
JumpDeltas == {5, 1250}

NextJump ==
  \/ \E x \in CoarseX, y \in CoarseY, vy \in JumpVy : PhysicsStep(x, y, vy)
  \/ \E k \in Keys, delta \in JumpDeltas : SceneUpdate(k, delta)
  \/ EndFrame

SpecJump == Init /\ [][NextJump]_vars

(***************************************************************************)
(* Frames that keep coming: the scene's update runs once per frame for as  *)
(* long as the game runs, so the frame steps are taken under weak          *)
(* fairness.  The body stands in either column, on the ground row or in a  *)
(* pocket below it, with no key or one mining key held, over ticks of      *)
(* 250 s and 500 s: every tile but bedrock breaks in one tick of its       *)
(* session and bedrock in at most two, within the session bound.           *)
(***************************************************************************)
HoldKeys ==
  {k \in Keys : ~k.jump /\ Cardinality({f \in {"left", "right", "down"} : k[f]}) = 1}
HoldDeltas == {250000, 500000}
NoKey == [left |-> FALSE, right |-> FALSE, down |-> FALSE, jump |-> FALSE]

NextHold ==
  \/ \E x \in CoarseX, y \in SessionY : PhysicsStep(x, y, 0)
  \/ \E k \in HoldKeys \cup {NoKey}, delta \in HoldDeltas : SceneUpdate(k, delta)
  \/ EndFrame

SpecHold == Init /\ [][NextHold]_vars /\ WF_vars(NextHold)

(***************************************************************************)
(* World generation on its own: generation systems are constructed, with a *)
(* seed or without, and asked for worlds.                                  *)
(***************************************************************************)
gameVars == <<worldData, tileSprites, tileVariations, body, sprite, pstate,
              mstate, landingCooldownTimer, wasGroundedLastFrame,
              targetIndicatorVisible, phase, obs, lastResult, sessionTicks, sessionMs,
              lastDir, landAcc>>

\* the calls of generate() followed on one instance
MaxGenerate == 2

\* the seeds passed; the last one is 2^32 + 7
Seeds == {JsNumber(0), JsNumber(1), JsNumber(7), JsNumber(-1000), JsInt(FALSE, <<7, 0, 1, 0>>)}

\* Date.now() at two moments: 1762196400000 and 1762196400016
Clock == {JsInt(FALSE, <<10112, 19223, 410, 0>>),
          JsInt(FALSE, <<10128, 19223, 410, 0>>)}

\* width, height, surfaceDepth and dirtDepth of the worlds asked for
WorldSizes == {[width |-> 3, height |-> 5, surfaceDepth |-> 1, dirtDepth |-> 2],
               [width |-> 2, height |-> 4, surfaceDepth |-> 0, dirtDepth |-> 1],
               [width |-> 20, height |-> 2, surfaceDepth |-> 1, dirtDepth |-> 1]}

ConstructGenerationSystem(i, p, seed, now) ==
  /\ generators[i] = NULL
  /\ generators' = [generators EXCEPT ![i] = NewGenerationSystem(p, seed, now)]
  /\ constructed' = [constructed EXCEPT ![i] = [seed |-> seed, now |-> now]]
  /\ UNCHANGED <<generated, rng, rngDraws, rngEarlier>>
  /\ UNCHANGED gameVars

GenerateCall(i) ==
  /\ generators[i] # NULL
  /\ Len(generated[i]) < MaxGenerate
  /\ \E g \in {Generate(generators[i])} :
       /\ generators' = [generators EXCEPT ![i] = g.system]
       /\ generated' = [generated EXCEPT ![i] = Append(@, g.data)]
  /\ UNCHANGED <<constructed, rng, rngDraws, rngEarlier>>
  /\ UNCHANGED gameVars

NextGeneration ==
  \/ \E i \in Instances, p \in WorldSizes, seed \in Seeds \cup {NULL}, now \in Clock :
       ConstructGenerationSystem(i, p, seed, now)
  \/ \E i \in Instances : GenerateCall(i)

SpecGeneration == Init /\ [][NextGeneration]_vars

(***************************************************************************)
(* The sequence generator on its own, driven through its interface.        *)
(***************************************************************************)
\* the calls of next() followed between two resets
MaxDraws == 3

\* new RNG(seed) at the time now: seed ?? Date.now()
ConstructRNG(seed, now) ==
  /\ rng = NULL
  /\ rng' = NewRNG(IF seed # NULL THEN seed ELSE now)
  /\ UNCHANGED <<generators, generated, constructed, rngDraws, rngEarlier>>
  /\ UNCHANGED gameVars

NextCall ==
  /\ rng # NULL
  /\ Len(rngDraws) < MaxDraws
  /\ \E n \in {RngNext(rng)} :
       /\ rng' = n.rng
       /\ rngDraws' = Append(rngDraws, n.value)
  /\ UNCHANGED <<generators, generated, constructed, rngEarlier>>
  /\ UNCHANGED gameVars

ResetCall ==
  /\ rng # NULL
  /\ rng' = RngReset(rng)
  /\ rngDraws' = <<>>
  /\ rngEarlier' = Len(rngDraws)
  /\ UNCHANGED <<generators, generated, constructed>>
  /\ UNCHANGED gameVars

\* the seeds passed to new RNG(): those above and 2^32 - 1
RngSeeds == Seeds \cup {JsInt(FALSE, <<LimbBase - 1, LimbBase - 1, 0, 0>>)}

NextRNG ==
  \/ \E seed \in RngSeeds \cup {NULL}, now \in Clock : ConstructRNG(seed, now)
  \/ NextCall
  \/ ResetCall

SpecRNG == Init /\ [][NextRNG]_vars

(***************************************************************************)
(* Properties.  A state in phase "end" holds, in obs, the frame's update:  *)
(* the state it started from (world, sprites, vy, before, lastDir), what   *)
(* it was given (delta, keys, player) and what it did.                     *)
(***************************************************************************)
Ticked == obs.called = "update"

\* a tick that adds progress right after a tick that left a session active
ActiveRun == Ticked /\ obs.before.isActive /\ obs.added

SameTarget ==
  obs.target.tileX = obs.before.targetX /\ obs.target.tileY = obs.before.targetY

SameDirection == obs.direction = obs.lastDir

\* the tile type the tick's target held when the tick began
TargetTypeBefore == obs.world.tiles[obs.target.tileY][obs.target.tileX]

C2_NoMiningInLandingWindow ==
  (Ticked /\ landAcc < landingCooldown) =>
    /\ ~obs.started
    /\ ~obs.added
    /\ obs.calls = <<>>
    /\ worldData = obs.world
    /\ tileSprites = obs.sprites
    /\ obs.result = NULL
    /\ ~mstate.isActive
    /\ mstate.progress = FixZero

\* a tick after the landing tick, still inside the window, grounded, with the
\* down key held over a solid tile
C2_Witness ==
  /\ Ticked
  /\ landAcc > 0
  /\ landAcc < landingCooldown
  /\ pstate.isGrounded
  /\ obs.keys.down
  /\ IsSolid(worldData, obs.player.x \div tileWidth, obs.player.y \div tileHeight + 1)

\* the tick tested a progress of at least 1.0
Reached == Ticked /\ obs.added /\ ~BigLess(obs.peak, FixOne)

\* C3: a tick whose progress reaches 1.0 calls destroyTile exactly once, on
\* the target, and returns a result with the target's coordinates, the tile
\* type the cell held before and the success destroyTile returned, leaving
\* the machine Idle; every other tick returns null and calls no destroyTile.
C3_BreakExactlyWhenReached ==
  Ticked =>
    IF Reached
      THEN /\ Len(obs.calls) = 1
           /\ obs.calls[1].x = obs.target.tileX
           /\ obs.calls[1].y = obs.target.tileY
           /\ obs.result # NULL
           /\ obs.result.broken
           /\ obs.result.tileX = obs.target.tileX
           /\ obs.result.tileY = obs.target.tileY
           /\ obs.result.tileType = TargetTypeBefore
           /\ obs.result.success = obs.calls[1].ok
           /\ ~mstate.isActive
           /\ mstate.progress = FixZero
      ELSE /\ obs.result = NULL
           /\ obs.calls = <<>>

\* a tick whose progress is exactly 1.0 breaks the ore tile
C3_Witness ==
  /\ Reached
  /\ obs.peak = FixOne
  /\ obs.result # NULL
  /\ obs.result.tileType = ORE
  /\ obs.result.success

\* a direct call of the tilemap's interface, and whether its coordinates
\* lie in the grid
Destroyed == obs.called = "destroyTile"

InRange == obs.x >= 0 /\ obs.y >= 0 /\ obs.x < obs.world.width /\ obs.y < obs.world.height

\* C4 as stated: destroyTile in range always returns true and leaves the cell
\* EMPTY, and returns false only out of range.
C4_AsStated ==
  Destroyed =>
    /\ InRange => (obs.ret /\ worldData.tiles[obs.y][obs.x] = EMPTY)
    /\ ~obs.ret => ~InRange

\* C4: destroyTile returns true exactly when the coordinates are in range and
\* the cell holds a tile (a sprite is registered for it, which is the case
\* exactly for the non-EMPTY cells); an in-range cell is EMPTY after the call
\* either way; a call that returns false (out of range, or a cell that is
\* EMPTY already or was destroyed before) changes nothing.
C4_DestroyTrueIffTileHeld ==
  Destroyed =>
    /\ obs.ret <=> (InRange /\ <<obs.x, obs.y>> \in obs.sprites)
    /\ InRange => /\ worldData.tiles[obs.y][obs.x] = EMPTY
                  /\ <<obs.x, obs.y>> \in obs.sprites
                       <=> obs.world.tiles[obs.y][obs.x] # EMPTY
    /\ ~obs.ret => /\ worldData = obs.world
                   /\ tileSprites = obs.sprites

\* destroyTile called on a cell of the deep row that an earlier call emptied
C4_Witness ==
  /\ Destroyed
  /\ InRange
  /\ obs.y # GroundRow
  /\ BaseTiles[obs.y + 1][obs.x + 1] # EMPTY
  /\ obs.world.tiles[obs.y][obs.x] = EMPTY
  /\ ~obs.ret

\* C5: out of range (negative or too large on either axis) getTileAt returns
\* the null NoTile (no error value), isSolid returns false and destroyTile
\* returns false, and the grid and the sprite registry are as before the call.
C5_OutOfRangeIsHarmless ==
  (obs.called \in {"getTileAt", "isSolid", "destroyTile"} /\ ~InRange) =>
    /\ obs.called = "getTileAt" => obs.ret = NoTile
    /\ obs.called = "isSolid" => obs.ret = FALSE
    /\ obs.called = "destroyTile" => obs.ret = FALSE
    /\ worldData = obs.world
    /\ tileSprites = obs.sprites
    /\ tileVariations = tileSprites

\* getTileAt called one column past the right edge, one row above the top
C5_Witness ==
  /\ obs.called = "getTileAt"
  /\ obs.x = obs.world.width
  /\ obs.y < 0
  /\ obs.ret = NoTile

\* C6: a step changes a grid cell only if it is an update whose mining
\* result is a break of exactly that cell, and then from a solid type to
\* EMPTY: the physics step, the frame end, the collision step of an update
\* and an update that returns null (Idle or progress only) change no cell,
\* a break changes no cell but its target, and width and height never change.
C6_OnlyBreakChangesGrid ==
  [][ /\ worldData'.width = worldData.width
      /\ worldData'.height = worldData.height
      /\ DOMAIN worldData'.tiles = DOMAIN worldData.tiles
      /\ \A y \in Rows : \A x \in Cols :
           worldData'.tiles[y][x] # worldData.tiles[y][x] =>
             /\ phase = "update"
             /\ obs'.result # NULL
             /\ obs'.result.broken
             /\ obs'.result.tileX = x
             /\ obs'.result.tileY = y
             /\ TileRegistry[worldData.tiles[y][x]].solid
             /\ worldData'.tiles[y][x] = EMPTY ]_vars

\* an update broke a tile whose row neighbour is a tile too: one cell changed
C6_Witness ==
  /\ Ticked
  /\ obs.result # NULL
  /\ obs.result.success
  /\ worldData # obs.world
  /\ \E x \in Cols : x # obs.result.tileX /\ worldData.tiles[obs.result.tileY][x] # EMPTY

\* the cell the mining update of the frame before broke
BrokenBefore == lastResult # NULL /\ lastResult.success

FootTiles == { <<LeftFootX(body), FeetY(body)>>, <<RightFootX(body), FeetY(body)>> }

\* C7: the cell of a successful destroyTile reads EMPTY and not solid right
\* after the call, and the update of the next frame already finds it so: its
\* collision check is not grounded on it (a body standing on the broken tile
\* is not grounded unless another tile is under a foot) and its mining tick
\* adds no progress on it.
C7_BreakVisibleAtOnce ==
  Ticked =>
    /\ (obs.result # NULL /\ obs.result.success) =>
         /\ GetTileAt(worldData, obs.result.tileX, obs.result.tileY) = EMPTY
         /\ ~IsSolid(worldData, obs.result.tileX, obs.result.tileY)
    /\ BrokenBefore =>
         /\ GetTileAt(obs.world, lastResult.tileX, lastResult.tileY) = EMPTY
         /\ ~IsSolid(obs.world, lastResult.tileX, lastResult.tileY)
         /\ pstate.isGrounded =>
              \E f \in FootTiles :
                 /\ f # <<lastResult.tileX, lastResult.tileY>>
                 /\ IsSolid(obs.world, f[1], f[2])
         /\ (obs.target # NULL /\ obs.target.tileX = lastResult.tileX
                               /\ obs.target.tileY = lastResult.tileY) => ~obs.added

\* the frame after a break below the player: the body is where it stood, both
\* feet over the broken cell, not moving, and is not grounded
C7_Witness ==
  /\ Ticked
  /\ BrokenBefore
  /\ FootTiles = {<<lastResult.tileX, lastResult.tileY>>}
  /\ obs.vy = 0
  /\ obs.wasGrounded
  /\ ~pstate.isGrounded

\* the body's edges, and its overlap with the column tx and with the row ty
BodyLeft == body.x
BodyRight == body.x + bodyWidth
BodyTop == body.y
BodyBottom == body.y + bodyHeight

OverlapXOf(tx) == Min(BodyRight - tx * tileWidth, (tx + 1) * tileWidth - BodyLeft)
OverlapYOf(ty) == Min(BodyBottom - ty * tileHeight, (ty + 1) * tileHeight - BodyTop)

\* the tile (tx, ty) was solid when the update began
SolidBefore(tx, ty) ==
  tx \in Cols /\ ty \in Rows /\ TileRegistry[obs.world.tiles[ty][tx]].solid

\* the solid tiles the body overlaps, and those it overlaps beyond 0.5 px
Overlapped ==
  { t \in Cols \X Rows :
      SolidBefore(t[1], t[2]) /\ OverlapXOf(t[1]) > 0 /\ OverlapYOf(t[2]) > 0 }

Colliding ==
  { t \in Overlapped : OverlapXOf(t[1]) > HalfPx /\ OverlapYOf(t[2]) > HalfPx }

\* the correction the update applied to the position
MovedX == sprite.x - obs.wasSprite.x
MovedY == sprite.y - obs.wasSprite.y

\* C8: one collision check moves the position not at all, or along exactly
\* one axis by the overlap of one single solid tile the body overlaps,
\* however many tiles it overlaps; the body itself is left where it was.
C8_OneCorrectionOneAxis ==
  Ticked =>
    /\ obs.wasSprite = SpriteOf(body.x, body.y)
    /\ \/ MovedX = 0 /\ MovedY = 0
       \/ \E t \in Colliding :
            \/ MovedY = 0 /\ MovedX # 0 /\ MovedX \in {OverlapXOf(t[1]), -OverlapXOf(t[1])}
            \/ MovedX = 0 /\ MovedY # 0 /\ MovedY \in {OverlapYOf(t[2]), -OverlapYOf(t[2])}

\* a body overlapping four solid tiles is corrected
C8_Witness ==
  /\ Ticked
  /\ Cardinality(Colliding) = 4
  /\ sprite # obs.wasSprite

\* the foot points and whether a point lies in a solid tile
FootPoints ==
  { <<BodyLeft + Px(2), BodyBottom + Px(1)>>, <<BodyRight - Px(2), BodyBottom + Px(1)>> }

OnSolid(pt) == SolidBefore(pt[1] \div tileWidth, pt[2] \div tileHeight)

\* C9: the grounded flag of a collision check is true exactly when the
\* vertical velocity is at least -0.5 and a foot point, floor-divided by the
\* tile size, is a solid tile; a foot point outside the grid is not solid.
C9_GroundedIffGateAndFoot ==
  Ticked =>
    (pstate.isGrounded <=> (obs.vy >= -HalfPx /\ \E pt \in FootPoints : OnSolid(pt)))

\* grounded at a velocity of exactly -0.5 with one foot point over a solid
\* tile and the other over none
C9_Witness ==
  /\ Ticked
  /\ pstate.isGrounded
  /\ obs.vy = -HalfPx
  /\ \E pt \in FootPoints : OnSolid(pt)
  /\ \E pt \in FootPoints : ~OnSolid(pt)

\* the solid tiles whose top edge the body's bottom edge lies on
RestingOn ==
  { t \in Cols \X Rows :
      /\ SolidBefore(t[1], t[2])
      /\ t[2] * tileHeight = BodyBottom
      /\ OverlapXOf(t[1]) > 0 }

Resting == Ticked /\ obs.vy = 0 /\ RestingOn # {} /\ Overlapped = {}

Uncorrected ==
  /\ obs.best = NULL
  /\ sprite = obs.wasSprite
  /\ ~obs.jumped => body.vy = 0

\* C10 as stated: a body at rest on the top edge of a solid tile, overlapping
\* no solid tile, is grounded and not corrected.
C10_AsStated ==
  Resting => (pstate.isGrounded /\ Uncorrected)

\* C10: a body with zero vertical velocity whose bottom edge lies on the top
\* edge of a solid tile, overlapping no solid tile, is never corrected: its
\* position is the same after the check, so every repeated check finds the
\* same; it is grounded exactly when a tile it rests on lies under a foot
\* point (left+2 or right-2), not when it overhangs the tile by 2 px or less.
C10_RestingUnderAFoot ==
  Resting =>
    /\ Uncorrected
    /\ pstate.isGrounded <=>
         \E t \in RestingOn : \E pt \in FootPoints : pt[1] \div tileWidth = t[1]

\* a body at rest astride two columns, grounded in the frame before and in
\* this one, one foot over the tile it rests on and one over no tile
C10_Witness ==
  /\ Resting
  /\ Cardinality(RestingOn) = 1
  /\ \E pt \in FootPoints : ~OnSolid(pt)
  /\ obs.wasGrounded
  /\ pstate.isGrounded

\* the depth by which the body's bottom edge is below the top of row ty
DepthInto(ty) == BodyBottom - ty * tileHeight

\* the solid tiles whose top the bottom edge penetrates by more than 0.5 px
\* and by less than the horizontal overlap
Penetrated ==
  { t \in Cols \X Rows :
      /\ SolidBefore(t[1], t[2])
      /\ BodyTop < t[2] * tileHeight
      /\ DepthInto(t[2]) > HalfPx
      /\ DepthInto(t[2]) < OverlapXOf(t[1]) }

AreaOf(t) == OverlapXOf(t[1]) * OverlapYOf(t[2])

\* t comes before u in the scan: rows from the top, columns from the left
ScannedBefore(t, u) == t[2] < u[2] \/ (t[2] = u[2] /\ t[1] < u[1])

\* t is the tile the check resolves: the largest overlap area among the
\* colliding tiles, the first scanned among equals
Resolved(t) ==
  /\ t \in Colliding
  /\ \A u \in Colliding \ {t} :
       AreaOf(u) < AreaOf(t) \/ (AreaOf(u) = AreaOf(t) /\ ScannedBefore(t, u))

PushedUpBy(d) ==
  /\ MovedY = -d
  /\ MovedX = 0
  /\ obs.jumped \/ body.vy = 0

\* C11 as stated: a falling body whose bottom edge penetrates the top of a
\* solid tile by d (0.5 < d < horizontal overlap) is moved up by exactly d,
\* not sideways, and its vertical velocity is zeroed.
C11_AsStated ==
  (Ticked /\ obs.vy > 0) =>
    \A t \in Penetrated : PushedUpBy(DepthInto(t[2]))

\* C11: a falling body whose bottom edge penetrates the top of a solid tile
\* by d (0.5 < d < horizontal overlap) is moved up by exactly d, not
\* sideways, with its vertical velocity zeroed, when that tile is the one the
\* check resolves: the colliding tile of the largest overlap area, the first
\* scanned among equals.
C11_ResolvedTilePushesUp ==
  (Ticked /\ obs.vy > 0) =>
    \A t \in Penetrated : Resolved(t) => PushedUpBy(DepthInto(t[2]))

\* a body falling at 5 px/s, 1 px into the ground tile, is moved up by 1 px
\* and stopped
C11_Witness ==
  /\ Ticked
  /\ obs.vy = Px(5)
  /\ ~obs.jumped
  /\ \E t \in Penetrated : Resolved(t) /\ DepthInto(t[2]) = Px(1)
  /\ MovedY = -Px(1)
  /\ MovedX = 0
  /\ body.vy = 0

\* the second of two update() calls in a row with the same input, position
\* and grounded flag
Repeated == obs.called = "updateAgain"

\* the cell of a break result held a tile before the call and is EMPTY after
BrokeATile(result, worldBefore) ==
  result # NULL =>
    /\ worldBefore.tiles[result.tileY][result.tileX] # EMPTY
    /\ worldData.tiles[result.tileY][result.tileX] = EMPTY

SecondCallChangedNothing ==
  (Repeated /\ obs.delta = 0) =>
    /\ mstate = obs.first.mstate
    /\ landingCooldownTimer = obs.first.timer
    /\ wasGroundedLastFrame = obs.first.wasGrounded
    /\ targetIndicatorVisible = obs.first.visible
    /\ worldData = obs.first.world
    /\ tileSprites = obs.first.sprites
    /\ obs.calls = <<>>
    /\ obs.result = NULL

\* C12: a second update() right after a first, with the same input, position
\* and grounded flag and delta = 0, leaves the mining state (session, cooldown
\* timer, grounded memory) and the tilemap as the first call left them and
\* returns null; and no tile is broken twice: every break result names a cell
\* that held a tile before the call, and an EMPTY cell stays EMPTY for ever.
C12_ZeroDeltaRepeatIsIdle ==
  [][ /\ SecondCallChangedNothing'
      /\ Ticked' => BrokeATile(obs.result, obs.world)'
      /\ Repeated' => BrokeATile(obs.result, obs.first.world)'
      /\ \A y \in Rows : \A x \in Cols :
           worldData.tiles[y][x] = EMPTY => worldData'.tiles[y][x] = EMPTY ]_vars

\* a second call with delta = 0 on a session with progress made: the progress
\* and the session are those the first call left
C12_Witness ==
  /\ Repeated
  /\ obs.delta = 0
  /\ obs.added
  /\ obs.first.mstate.isActive
  /\ obs.first.mstate.progress # FixZero
  /\ mstate = obs.first.mstate

\* the centre of the body where the collision step of the tick left it
CorrectedCenter ==
  [x |-> BodyLeft + bodyWidth \div 2 + MovedX,
   y |-> BodyTop + bodyHeight \div 2 + MovedY]

\* C13: in every tick the mining update is given the grounded flag the
\* tick's collision step computed and the player position that step
\* produced, the correction applied.
C13_MiningGetsCorrectedPosition ==
  Ticked =>
    /\ wasGroundedLastFrame = pstate.isGrounded
    /\ obs.player = CorrectedCenter


\* the tile types a generated grid holds
TilesOf(data) ==
  {data.tiles[y][x] : y \in 1 .. data.height, x \in 1 .. data.width}

SameParams(i, j) ==
  /\ generators[i] # NULL
  /\ generators[j] # NULL
  /\ generators[i].params = generators[j].params

\* C14: two generation systems constructed with the same seed and the same
\* width, height, surfaceDepth and dirtDepth return from generate(), call
\* for call, grids that are equal cell for cell, and every world returned
\* carries that seed
C14_SameSeedSameWorld ==
  \A i, j \in Instances :
    SameParams(i, j) =>
      \A k \in 1 .. Min(Len(generated[i]), Len(generated[j])) :
        /\ generated[i][k].tiles = generated[j][k].tiles
        /\ generated[i][k].seed = generators[i].params.seed
        /\ generated[j][k].seed = generators[i].params.seed

\* two systems of the same parameters have each generated a world in which
\* the draws placed ore in some cells and not in others
C14_Witness ==
  /\ SameParams(1, 2)
  /\ generated[1] # <<>>
  /\ generated[2] # <<>>
  /\ ORE \in TilesOf(generated[1][1])
  /\ DIRT \in TilesOf(generated[2][1])

\* C15: a second generate() on the same generation system returns a grid
\* equal cell for cell to the grid its first generate() returned
C15_SecondGenerateSameGrid ==
  \A i \in Instances :
    Len(generated[i]) >= 2 => generated[i][2].tiles = generated[i][1].tiles

\* C16: whatever integer seed the generator was constructed with, every
\* value next() returns lies in [0, 1): the state each step leaves is an
\* integer in [0, 2^32)
C16_DrawsInUnitInterval ==
  /\ \A i \in 1 .. Len(rngDraws) : InUnitInterval(rngDraws[i])
  /\ rngDraws # <<>> => InUnitInterval(rng.current)

\* the first n values a generator r returns
RECURSIVE DrawsOf(_, _)
DrawsOf(r, n) ==
  IF n = 0 THEN <<>> ELSE <<RngNext(r).value>> \o DrawsOf(RngNext(r).rng, n - 1)

\* C17: after reset(), whatever was drawn before, the generator returns the
\* sequence a freshly constructed generator of the same seed returns, and
\* neither next() nor reset() changes what getSeed() returns
C17_ResetRewindsToSeed ==
  [][ /\ rng # NULL => RngGetSeed(rng') = RngGetSeed(rng)
      /\ rngEarlier' >= 0 =>
           rngDraws' = DrawsOf(NewRNG(RngGetSeed(rng')), Len(rngDraws')) ]_vars

\* values were drawn, the generator was reset and values were drawn again
C17_Witness ==
  /\ rngEarlier >= 2
  /\ Len(rngDraws) >= 2
  /\ rngDraws[1] # rngDraws[2]

\* the tile next to the tile of the position given to the mining update, in
\* direction d
NeighbourTile(d) ==
  [tileX |-> obs.player.x \div tileWidth
               + (IF d = LEFT THEN -1 ELSE IF d = RIGHT THEN 1 ELSE 0),
   tileY |-> obs.player.y \div tileHeight + (IF d = DOWN THEN 1 ELSE 0)]

\* the direction a tick resolved was d, and a tile it targeted lies that way
Resolves(d) ==
  /\ obs.direction = d
  /\ obs.target # NULL => obs.target = NeighbourTile(d)

\* C19: of the mine flags set, down wins over left and left over right,
\* for every combination of the three; with none set the tick leaves the
\* machine Idle (not active, progress 0) and returns null
C19_DirectionPriority ==
  Ticked =>
    LET input == GetInput(obs.keys)
    IN  /\ input.mineDown => Resolves(DOWN)
        /\ ~input.mineDown /\ input.mineLeft => Resolves(LEFT)
        /\ ~input.mineDown /\ ~input.mineLeft /\ input.mineRight => Resolves(RIGHT)
        /\ ~input.mineDown /\ ~input.mineLeft /\ ~input.mineRight =>
             /\ obs.direction = NONE
             /\ ~mstate.isActive
             /\ mstate.progress = FixZero
             /\ obs.result = NULL

\* all three flags are set and the tick mines the tile below
C19_Witness ==
  /\ Ticked
  /\ GetInput(obs.keys).mineDown
  /\ GetInput(obs.keys).mineLeft
  /\ GetInput(obs.keys).mineRight
  /\ obs.added
  /\ obs.target = NeighbourTile(DOWN)

\* the tick was given a body off the ground, or the tile its mine flags
\* point at was not solid: EMPTY, or outside the grid
NotMineable ==
  \/ ~pstate.isGrounded
  \/ /\ obs.direction # NONE
     /\ ~SolidBefore(NeighbourTile(obs.direction).tileX,
                     NeighbourTile(obs.direction).tileY)

\* C20: a tick in which the body is not grounded, or the target tile is not
\* solid (EMPTY or outside the grid), leaves the machine Idle with progress
\* 0, returns null and leaves the grid as it was, whatever session was
\* active before
C20_NotMineableTickIsIdle ==
  Ticked /\ NotMineable =>
    /\ ~mstate.isActive
    /\ mstate.progress = FixZero
    /\ obs.result = NULL
    /\ worldData = obs.world
    /\ tileSprites = obs.sprites

\* a session with progress was active; the body, on the ground, turns to a
\* tile outside the grid and the session is gone
C20_Witness ==
  /\ Ticked
  /\ obs.before.isActive
  /\ obs.before.progress # FixZero
  /\ pstate.isGrounded
  /\ obs.direction # NONE
  /\ NeighbourTile(obs.direction).tileX \notin Cols
  /\ ~mstate.isActive

\* the delta a session has added up has reached hardness / miningSpeed seconds
TimeReached ==
  MiningSpeedNum * obs.elapsed >= 1000 * MiningSpeedDen * obs.hardness

\* C18: a tick of an uninterrupted session breaks the tile exactly when the
\* delta added up since the session started has reached hardness / 2
\* seconds (500 ms for dirt, 2500 ms for ore), however the time is split
\* into ticks
C18_BreaksWhenTimeReached ==
  Ticked /\ obs.added => (obs.result # NULL <=> TimeReached)

\* C21: after every update, whatever its delta, the progress stored is
\* within [0, 1]: an update that takes it to 1 or beyond stores 0
C21_ProgressWithinUnit ==
  /\ ~BigLess(mstate.progress, FixZero)
  /\ ~BigLess(FixOne, mstate.progress)
  /\ Ticked /\ obs.added => ~BigLess(obs.peak, obs.before.progress) \/ obs.started

\* a tick took the progress beyond 1.0 and left 0
C21_Witness ==
  /\ Ticked
  /\ obs.added
  /\ BigLess(FixOne, obs.peak)
  /\ mstate.progress = FixZero

\* C22: the hardness an active session stores is the registry hardness of
\* the tile type its target cell holds, and is strictly positive
C22_SessionHardnessIsTargets ==
  mstate.isActive =>
    /\ GetTileAt(worldData, mstate.targetX, mstate.targetY) # NoTile
    /\ mstate.hardness =
         TileRegistry[GetTileAt(worldData, mstate.targetX, mstate.targetY)].hardness
    /\ mstate.hardness > 0

\* a session on ore goes on into a second tick
C22_Witness ==
  /\ Ticked
  /\ mstate.isActive
  /\ obs.before.isActive
  /\ ~obs.started
  /\ GetTileAt(worldData, mstate.targetX, mstate.targetY) = ORE

\* the cells whose type the update changed
ChangedCells ==
  {t \in Cols \X Rows : worldData.tiles[t[2]][t[1]] # obs.world.tiles[t[2]][t[1]]}

\* the cells directly below, left of and right of the tile that contains
\* the position the update passed to mining
MineableCells ==
  LET px == obs.player.x \div tileWidth
      py == obs.player.y \div tileHeight
  IN  {<<px, py + 1>>, <<px - 1, py>>, <<px + 1, py>>}

\* C23: a tile broken by mining is the cell directly below, directly left
\* of or directly right of the tile containing the position passed to that
\* tick; no other cell changes
C23_BreaksOnlyAdjacentCells ==
  Ticked =>
    /\ ChangedCells \subseteq MineableCells
    /\ obs.result # NULL => <<obs.result.tileX, obs.result.tileY>> \in MineableCells

\* a tile beside the player is broken
C23_Witness ==
  /\ Ticked
  /\ obs.result # NULL
  /\ obs.result.success
  /\ obs.result.tileY = obs.player.y \div tileHeight
  /\ ChangedCells = {<<obs.result.tileX, obs.result.tileY>>}
\* the cells holding BEDROCK before the tick
BedrockBefore == {t \in Cols \X Rows : obs.world.tiles[t[2]][t[1]] = BEDROCK}

C25_ZeroSeedIsRandom ==
  \A i \in Instances :
     generators[i] # NULL =>
       IF constructed[i].seed = NULL \/ constructed[i].seed = JsNumber(0)
         THEN /\ generators[i].params.seed = constructed[i].now
              /\ generators[i].params.seed # JsNumber(0)
         ELSE generators[i].params.seed = constructed[i].seed

\* the body the tick's collision check saw is not grounded: it rises faster
\* than 0.5 px/s, or neither foot point is over a solid tile
NotGroundedBody ==
  obs.vy < -HalfPx \/ \A pt \in FootPoints : ~OnSolid(pt)

\* C26: a tick applies the jump velocity only if the grounded flag its own
\* collision check computed is true; a body that is not grounded (no solid
\* tile under either foot, or a vertical velocity below -0.5) neither jumps
\* nor mines in that tick: no progress is added, no tile is broken and no
\* session is left active
C26_NoJumpNoMiningUnlessGrounded ==
  Ticked =>
    /\ obs.jumped \/ body.vy = jumpVelocity => pstate.isGrounded
    /\ NotGroundedBody =>
         /\ ~pstate.isGrounded
         /\ ~obs.jumped
         /\ body.vy # jumpVelocity
         /\ ~obs.added
         /\ obs.result = NULL
         /\ ~mstate.isActive
         /\ mstate.progress = FixZero
         /\ worldData = obs.world

\* a body over solid ground rising at 1 px/s, with the jump and down keys
\* held during a mining session, does not jump and loses the session
C26_Witness ==
  /\ Ticked
  /\ obs.keys.jump
  /\ obs.keys.down
  /\ obs.vy = Px(-1)
  /\ \E pt \in FootPoints : OnSolid(pt)
  /\ obs.before.isActive
  /\ obs.before.progress # FixZero
  /\ ~obs.jumped
  /\ ~mstate.isActive

\* the centre of the body, and the correction the code's rule gives for the
\* tile t: along the axis of the smaller overlap (vertical when equal), by
\* that overlap, away from the tile's centre
BodyCenterX == BodyLeft + bodyWidth \div 2
BodyCenterY == BodyTop + bodyHeight \div 2

CorrectionFor(t) ==
  IF OverlapXOf(t[1]) < OverlapYOf(t[2])
    THEN [dx |-> IF BodyCenterX < t[1] * tileWidth + tileWidth \div 2
                   THEN -OverlapXOf(t[1]) ELSE OverlapXOf(t[1]),
          dy |-> 0]
    ELSE [dx |-> 0,
          dy |-> IF BodyCenterY < t[2] * tileHeight + tileHeight \div 2
                   THEN -OverlapYOf(t[2]) ELSE OverlapYOf(t[2])]

\* C27: the correction a check applies is the one for the solid tile of the
\* largest overlap area among those overlapping the body by more than
\* 0.5 px on both axes (the first in row-major scan order among equals):
\* horizontal when overlapX < overlapY and vertical otherwise, by exactly
\* that overlap, away from the tile's centre; with no such tile the
\* position is not corrected, whatever tiles overlap by 0.5 px or less
C27_LargestAreaTileCorrects ==
  Ticked =>
    /\ Colliding = {} => MovedX = 0 /\ MovedY = 0 /\ obs.best = NULL
    /\ \A t \in Colliding :
         Resolved(t) =>
           /\ MovedX = CorrectionFor(t).dx
           /\ MovedY = CorrectionFor(t).dy

\* two tiles collide with equal areas and the one scanned first corrects
C27_Witness ==
  /\ Ticked
  /\ \E t \in Colliding : \E u \in Colliding \ {t} :
        /\ AreaOf(t) = AreaOf(u)
        /\ Resolved(t)
        /\ CorrectionFor(t) # CorrectionFor(u)
        /\ MovedX = CorrectionFor(t).dx
        /\ MovedY = CorrectionFor(t).dy

\* a tile corrects the body sideways
SidewaysCorrected ==
  Ticked /\ MovedX # 0

\* a solid tile overlaps the body by 0.5 px or less on an axis
OverlapAtThreshold ==
  Ticked /\ Overlapped \ Colliding # {} /\ Colliding = {}

\* the solid cells the scan of the check visits
ScannedSolid ==
  { t \in (MinTileX(body) .. MaxTileX(body)) \X (MinTileY(body) .. MaxTileY(body)) :
      SolidBefore(t[1], t[2]) }

\* the width and the height the body and the cell share
SharedX(tx) == Min(BodyRight, (tx + 1) * tileWidth) - Max(BodyLeft, tx * tileWidth)
SharedY(ty) == Min(BodyBottom, (ty + 1) * tileHeight) - Max(BodyTop, ty * tileHeight)

\* one of the two spans lo1..hi1 and lo2..hi2 lies strictly inside the
\* other, and then the smaller gap between their corresponding ends
Nested(lo1, hi1, lo2, hi2) ==
  (lo1 < lo2 /\ hi2 < hi1) \/ (lo2 < lo1 /\ hi1 < hi2)

NestGap(lo1, hi1, lo2, hi2) ==
  IF lo1 < lo2 /\ hi2 < hi1 THEN Min(lo2 - lo1, hi1 - hi2)
  ELSE IF lo2 < lo1 /\ hi1 < hi2 THEN Min(lo1 - lo2, hi2 - hi1)
  ELSE 0

GapX(tx) == NestGap(BodyLeft, BodyRight, tx * tileWidth, (tx + 1) * tileWidth)
GapY(ty) == NestGap(BodyTop, BodyBottom, ty * tileHeight, (ty + 1) * tileHeight)

\* C28 as stated: for every solid cell of the scan, overlapX is
\* min(bodyRight, tileRight) - max(bodyLeft, tileLeft) and overlapY is the
\* analogous height
C28_OverlapIsSharedExtent ==
  Ticked =>
    \A t \in ScannedSolid :
       /\ TileOverlapX(body, t[1]) = SharedX(t[1])
       /\ TileOverlapY(body, t[2]) = SharedY(t[2])

\* C28: for every solid cell of the scan, overlapX is the smaller of
\* bodyRight - tileLeft and tileRight - bodyLeft, the distance that frees
\* the body along the axis: the shared width min(bodyRight, tileRight) -
\* max(bodyLeft, tileLeft) when neither span lies strictly inside the
\* other, and the shared width plus the smaller gap between corresponding
\* edges when one does; overlapY is analogous; and the area compared for
\* the winning cell is the product of the two
C28_OverlapIsEscapeDistance ==
  Ticked =>
    /\ \A t \in ScannedSolid :
         /\ TileOverlapX(body, t[1]) = SharedX(t[1]) + GapX(t[1])
         /\ TileOverlapY(body, t[2]) = SharedY(t[2]) + GapY(t[2])
    /\ obs.best # NULL =>
         obs.best.totalOverlap =
           (SharedX(obs.best.tx) + GapX(obs.best.tx)) * (SharedY(obs.best.ty) + GapY(obs.best.ty))

\* the body, 16 px wide, lies strictly inside the column of the 32 px tile
\* that corrects it: overlapX is 24 px, the shared width 16 px
C28_Witness ==
  /\ Ticked
  /\ obs.best # NULL
  /\ <<obs.best.tx, obs.best.ty>> \in ScannedSolid
  /\ GapX(obs.best.tx) = Px(8)
  /\ SharedX(obs.best.tx) = Px(16)
  /\ TileOverlapX(body, obs.best.tx) = Px(24)

\* C29: when the winning correction is vertical and pushes the body
\* downward (the body's centre is not above the tile's centre), the vertical
\* velocity is set to 0 only if it was above 0; a body moving upward keeps
\* its vertical velocity
C29_DownwardPushStopsOnlyFalling ==
  (Ticked /\ MovedY > 0 /\ ~obs.jumped) =>
    body.vy = (IF obs.vy > 0 THEN 0 ELSE obs.vy)

\* the body as the tick's correction leaves it: moved by the correction, at
\* the vertical velocity the correction left
CorrectedBody ==
  [x |-> body.x + MovedX,
   y |-> body.y + MovedY,
   vy |-> IF obs.best # NULL /\ obs.best.res.stopVelocityY THEN 0 ELSE obs.vy]

\* C30: the grounded flag a tick hands to the jump test and to mining is the
\* foot-sensor test of the body at its position after the tick's correction
\* and with the velocity after that correction
C30_GroundedIsOfCorrectedBody ==
  Ticked => (pstate.isGrounded <=> GroundedCheck(obs.world, CorrectedBody))

\* the worlds generate() has returned, each with the parameters of its system
GeneratedWorlds ==
  UNION { { [params |-> generators[i].params, tiles |-> generated[i][k].tiles] :
            k \in 1 .. Len(generated[i]) } : i \in Instances }

\* the cells of a world, as <<x, y>> from 0
CellsOf(w) == (0 .. w.params.width - 1) \X (0 .. w.params.height - 1)

TileIn(w, c) == w.tiles[c[2] + 1][c[1] + 1]

\* y lies above the surface adjusted by the sine term of column x
AboveAdjustedSurface(p, x, y) ==
  1000 * y < 1000 * p.surfaceDepth + SurfaceVariation[x + 1]

\* C31: a generated cell is surface-Empty exactly when
\* y < surfaceDepth + sin(x * 0.2) * 2; every other cell falls through to
\* the dirt band (y < surfaceDepth + dirtDepth, where it is DIRT or ORE) or
\* to the stone band, also a cell with y < surfaceDepth in a column whose
\* sine term is negative
C31_SurfaceFollowsSine ==
  \A w \in GeneratedWorlds : \A c \in CellsOf(w) :
     IF AboveAdjustedSurface(w.params, c[1], c[2])
       THEN TileIn(w, c) = EMPTY
     ELSE IF c[2] < w.params.surfaceDepth + w.params.dirtDepth
       THEN TileIn(w, c) \in {DIRT, ORE}
     ELSE (TileIn(w, c) = EMPTY => SimplexNoise(c[1], c[2]) > CaveThreshold)

\* the cells of the k-th world of instance i that are not EMPTY, in
\* row-major order (rows from the top, each from the left), as <<k, x, y>>
NonEmptyCells(i, k) ==
  LET data == generated[i][k]
      rowMajor == [n \in 1 .. data.width * data.height |->
                     <<k, (n - 1) % data.width, (n - 1) \div data.width>>]
  IN  SelectSeq(rowMajor, LAMBDA c : data.tiles[c[3] + 1][c[2] + 1] # EMPTY)

\* those cells over all the worlds the instance has generated, in order
RECURSIVE NonEmptyUpTo(_, _)
NonEmptyUpTo(i, k) ==
  IF k = 0 THEN <<>> ELSE NonEmptyUpTo(i, k - 1) \o NonEmptyCells(i, k)

\* the generator r and the generators its next n draws leave, in order
RECURSIVE RngStates(_, _)
RngStates(r, n) ==
  IF n = 0 THEN <<r>> ELSE <<r>> \o RngStates(RngNext(r).rng, n - 1)

\* the draw v makes the cell <<k, x, y>> of instance i ore
OreByDraw(i, c, v) ==
  LET below == IF c[3] < generators[i].params.surfaceDepth + generators[i].params.dirtDepth
                 THEN DirtOreBelow ELSE StoneOreBelow
  IN  v.neg \/ LessLimbs(v.mag, Limbs(below))

DrawPerNonEmptyCell(i, cells, states) ==
  /\ generators[i].rng = states[Len(cells) + 1]
  /\ \A n \in 1 .. Len(cells) :
       (generated[i][cells[n][1]].tiles[cells[n][3] + 1][cells[n][2] + 1] = ORE)
         <=> OreByDraw(i, cells[n], states[n + 1].current)

\* C32: generate() visits the cells in row-major order and draws once for
\* each dirt-band cell and each stone-band cell that is not a cave, and
\* not at all for surface-Empty and cave cells: the draws made equal in
\* number the cells that are not EMPTY, and the n-th such cell in row-major
\* order is ORE exactly when the n-th draw of the generator, counted from
\* its seed, is below the ore probability of the cell's band
C32_OneDrawPerNonEmptyCell ==
  \A i \in Instances :
     generators[i] # NULL =>
       \E cells \in {NonEmptyUpTo(i, Len(generated[i]))} :
       \E states \in {RngStates(NewRNG(generators[i].params.seed), Len(cells))} :
          DrawPerNonEmptyCell(i, cells, states)

\* a system has generated two worlds of surface, dirt, stone band and a
\* cave, holding both ore and dirt
C32_Witness ==
  /\ generators[1] # NULL
  /\ Len(generated[1]) = 2
  /\ generators[1].params.width = 3
  /\ generated[1][1].tiles[4][3] = EMPTY
  /\ ORE \in TilesOf(generated[1][2])
  /\ DIRT \in TilesOf(generated[1][2])
  /\ generated[1][1].tiles # generated[1][2].tiles

\* the cell lies in the stone band, and in the last two rows
InStoneBand(w, c) ==
  /\ c[2] >= w.params.surfaceDepth + w.params.dirtDepth
  /\ ~AboveAdjustedSurface(w.params, c[1], c[2])

InLastTwoRows(w, c) == c[2] >= w.params.height - 2

\* C33: in a generated grid a cell is BEDROCK only in the stone band with
\* y >= height - 2; every stone-band cell of the last two rows that is
\* neither a cave pocket nor ORE is BEDROCK, so no STONE lies in those rows,
\* and STONE lies only in stone-band rows above them
C33_BedrockInLastTwoRows ==
  \A w \in GeneratedWorlds : \A c \in CellsOf(w) :
     /\ TileIn(w, c) = BEDROCK => InStoneBand(w, c) /\ InLastTwoRows(w, c)
     /\ TileIn(w, c) = STONE => InStoneBand(w, c) /\ ~InLastTwoRows(w, c)
     /\ (/\ InStoneBand(w, c)
         /\ InLastTwoRows(w, c)
         /\ SimplexNoise(c[1], c[2]) <= CaveThreshold
         /\ TileIn(w, c) # ORE) => TileIn(w, c) = BEDROCK

\* one world holds ore and bedrock in its last row, another stone above
\* its bedrock
C33_Witness ==
  /\ \E w \in GeneratedWorlds :
        /\ ORE \in {w.tiles[w.params.height][x] : x \in 1 .. w.params.width}
        /\ BEDROCK \in {w.tiles[w.params.height][x] : x \in 1 .. w.params.width}
  /\ \E w \in GeneratedWorlds : \E c \in CellsOf(w) :
        /\ TileIn(w, c) = STONE
        /\ TileIn(w, <<c[1], c[2] + 1>>) = BEDROCK

\* a step that is the frame's update
UpdateStep == phase = "update" /\ phase' = "end"

\* C34: the landing cooldown is armed on exactly the ticks where isGrounded
\* is true and was false at the previous update() (at the first update it
\* counts as false), whatever the mining intent; on every other tick,
\* remaining grounded included, the timer is only counted down by delta
\* while it is above 0; and the timer never exceeds
\* MiningConfig.landingCooldown
C34_CooldownArmedOnLandingOnly ==
  /\ ~wasGroundedLastFrame
  /\ [][ /\ landingCooldownTimer' <= landingCooldown
         /\ UpdateStep =>
              /\ wasGroundedLastFrame' = pstate'.isGrounded
              /\ landingCooldownTimer' =
                   IF ~wasGroundedLastFrame /\ pstate'.isGrounded THEN landingCooldown
                   ELSE IF landingCooldownTimer > 0
                     THEN landingCooldownTimer - obs'.delta
                   ELSE landingCooldownTimer ]_vars

\* a body that was in the air lands with no key held, in a tick of 1.25 s,
\* and the cooldown is armed
C34_Witness ==
  /\ Ticked
  /\ ~obs.wasGrounded
  /\ pstate.isGrounded
  /\ obs.direction = NONE
  /\ obs.delta = 1250
  /\ landingCooldownTimer = landingCooldown
  /\ landAcc = 0

\* a * n + c for the magnitude n, computed without rounding
ExactLcg(n) ==
  AddLimbs(AddLimbs(ScaleLimbs(n, LcgA % LimbBase),
                    ShiftLimbs(ScaleLimbs(n, LcgA \div LimbBase))),
           Limbs(LcgC))

\* a step that is a call of next()
NextStep == rng # NULL /\ rng' # NULL /\ Len(rngDraws') = Len(rngDraws) + 1

\* C35: from every state in [0, 2^32), next() leaves exactly
\* (1664525 * state + 1013904223) mod 2^32: the value before the remainder
\* has at most 53 bits, so the double arithmetic loses nothing, and the new
\* state is again an integer in [0, 2^32), returned over 2^32
C35_StepIsExactInRange ==
  [][ (NextStep /\ InUnitInterval(rng.current)) =>
        \E exact \in {ExactLcg(rng.current.mag)} :
           /\ BitLength(exact) <= DoubleBits
           /\ rng'.current = [neg |-> FALSE, mag |-> <<exact[1], exact[2], 0, 0>>]
           /\ InUnitInterval(rng'.current)
           /\ rngDraws'[Len(rngDraws')] = rng'.current ]_vars

\* the largest state, 2^32 - 1, has been stepped: 53 bits before the
\* remainder, 1012239698 after it
C35_Witness ==
  /\ rng # NULL
  /\ rng.seed = [neg |-> FALSE, mag |-> <<LimbBase - 1, LimbBase - 1, 0, 0>>]
  /\ Len(rngDraws) = 1
  /\ BitLength(ExactLcg(rng.seed.mag)) = DoubleBits
  /\ rng.current = [neg |-> FALSE, mag |-> <<36178, 15445, 0, 0>>]

\* the cell the key k targets from a body at (x, y)
HoldTarget(k, x, y) ==
  LET centre == GetCenterPosition([x |-> x, y |-> y, vy |-> 0])
  IN  GetTargetTile(centre.x, centre.y, GetMiningDirection(GetInput(k)))

\* the body is at (x, y) at rest, and the tick just made had the key k
\* held, a positive delta and a grounded body
Held(k, x, y) ==
  /\ body.x = x /\ body.y = y
  /\ phase # "step" => body.vy = 0
  /\ Ticked => obs.keys = k /\ obs.delta > 0 /\ pstate.isGrounded

\* the tick just made broke the cell t
BrokeCell(t) ==
  /\ Ticked
  /\ obs.result # NULL
  /\ obs.result.success
  /\ obs.result.tileX = t.tileX /\ obs.result.tileY = t.tileY
  /\ worldData.tiles[t.tileY][t.tileX] = EMPTY

\* the cell t is a solid tile
SolidCell(t) == IsSolid(worldData, t.tileX, t.tileY)

NonEmptyNow == { c \in Cols \X Rows : worldData.tiles[c[2]][c[1]] # EMPTY }

\* C37: from create() on, a sprite is registered for a cell exactly when
\* the cell's tile type is not EMPTY, also after the neighbours of a
\* destroyed cell have had their sprites created again; so destroyTile on
\* a cell of the grid that is not EMPTY returns true
C37_SpriteIffNotEmpty ==
  /\ tileSprites = NonEmptyNow
  /\ obs.called = "destroyTile" =>
       ((<<obs.x, obs.y>> \in Cols \X Rows /\ obs.world.tiles[obs.y][obs.x] # EMPTY)
          => obs.ret /\ worldData.tiles[obs.y][obs.x] = EMPTY)

\* the stone tile is destroyed beside the dirt tile, whose sprite is
\* created again, after another cell was destroyed before
C37_Witness ==
  /\ obs.called = "destroyTile"
  /\ obs.ret
  /\ obs.world.tiles[obs.y][obs.x] = STONE
  /\ <<obs.x - 1, obs.y>> \in tileSprites
  /\ worldData.tiles[obs.y][obs.x - 1] = DIRT
  /\ Cardinality(tileSprites) = 2

\* C38: over any run a cell produces at most one break result, and every
\* break result update() returns has success = true and a solid tile type:
\* a result names a cell that held that solid tile when the tick began and
\* is EMPTY when it ends, a tick without a result leaves the grid as it
\* was, and a cell that is EMPTY stays EMPTY, so no later result names it
C38_OneBreakResultPerCell ==
  [][ /\ \A c \in Cols \X Rows :
           worldData.tiles[c[2]][c[1]] = EMPTY => worldData'.tiles[c[2]][c[1]] = EMPTY
      /\ (UpdateStep /\ obs'.result = NULL) => worldData' = worldData
      /\ (UpdateStep /\ obs'.result # NULL) =>
           /\ obs'.result.success
           /\ obs'.result.broken
           /\ obs'.result.tileType # EMPTY
           /\ TileRegistry[obs'.result.tileType].solid
           /\ <<obs'.result.tileX, obs'.result.tileY>> \in Cols \X Rows
           /\ worldData.tiles[obs'.result.tileY][obs'.result.tileX] = obs'.result.tileType
           /\ worldData'.tiles[obs'.result.tileY][obs'.result.tileX] = EMPTY ]_vars

\* the ore tile is broken from the pocket left by the dirt tile above it
C38_Witness ==
  /\ Ticked
  /\ obs.result # NULL
  /\ obs.result.success
  /\ obs.result.tileType = ORE
  /\ worldData.tiles[obs.result.tileY - 1][obs.result.tileX] = EMPTY
  /\ worldData.tiles[obs.result.tileY][obs.result.tileX] = EMPTY

\* C39: whenever a session is active after a tick, its stored direction is
\* the direction resolved from that tick's input and its stored target is
\* the target computed in that tick
C39_SessionMatchesTheTick ==
  (Ticked /\ mstate.isActive) =>
    /\ mstate.direction = obs.direction
    /\ mstate.targetX = obs.target.tileX
    /\ mstate.targetY = obs.target.tileY

\* the body's edges once the correction of the check has moved it
CorrectedLeft == BodyLeft + MovedX
CorrectedRight == BodyRight + MovedX
CorrectedTop == BodyTop + MovedY
CorrectedBottom == BodyBottom + MovedY

\* the corrected body touches the tile t along the axis it was moved on,
\* on the side it was moved to
FlushWith(t) ==
  \/ MovedX < 0 /\ MovedY = 0 /\ CorrectedRight = t[1] * tileWidth
  \/ MovedX > 0 /\ MovedY = 0 /\ CorrectedLeft = (t[1] + 1) * tileWidth
  \/ MovedY < 0 /\ MovedX = 0 /\ CorrectedBottom = t[2] * tileHeight
  \/ MovedY > 0 /\ MovedX = 0 /\ CorrectedTop = (t[2] + 1) * tileHeight

\* C40: after the single correction of a collision check is applied the
\* body no longer penetrates the winning tile on the resolved axis: the
\* body edge that was inside the tile is flush with the tile edge it was
\* pushed away from
C40_CorrectionLeavesBodyFlush ==
  Ticked => \A t \in Colliding : Resolved(t) => FlushWith(t)

\* a body pushed to the right until its left edge is on the tile's right edge
C40_Witness ==
  /\ Ticked
  /\ \E t \in Colliding : Resolved(t) /\ FlushWith(t) /\ MovedX > 0
  /\ Cardinality(Colliding) > 1

=============================================================================
